---- MODULE Spec2Model ----
(***************************************************************************)
(* ConnectionPool and DatabaseClient of                                    *)
(* services/database/database_client.py.                                   *)
(*                                                                         *)
(* Every thread of the program is a process with a position pc[t].  The    *)
(* Queue operations and the statements run under ConnectionPool._lock are  *)
(* the atomic steps; everything between them interleaves freely.           *)
(*                                                                         *)
(* Time is read by the code in two comparisons only                        *)
(* (time.time() - start_time < timeout, time.time() - last_used >          *)
(* validation_interval).  The clock is an input of the environment: the    *)
(* model keeps, for every running get_connection, whether its timeout has  *)
(* elapsed (expired) and, for every idle entry, whether it has been idle   *)
(* for longer than validation_interval (stale).  Both only ever turn from  *)
(* FALSE to TRUE, as the clock only advances.                              *)
(***************************************************************************)
EXTENDS Integers, Sequences, FiniteSets, TLC

\* Number of concurrent caller threads.
NumThreads == 2
\* Number of connection objects the factory can hand out before it only fails.
MaxConns == 2
\* Number of statements that write a row, over all threads.
MaxWrites == 2
\* Deepest nesting of transaction() scopes a thread enters.
MaxDepth == 2

Threads == 1..NumThreads
Conns == 1..MaxConns
Writes == 1..MaxWrites
\* Python's None, for a connection or the holder of the lock.
None == 0

VARIABLES
    min_connections,      \* ConnectionPool._min_connections
    max_connections,      \* ConnectionPool._max_connections
    pool,                 \* ConnectionPool._pool: FIFO Queue of (connection, last_used)
    active_connections,   \* ConnectionPool._active_connections
    lock,                 \* ConnectionPool._lock: the thread inside "with self._lock", or None
    next_conn,            \* the next object the connection factory returns
    pc,                   \* position of each thread
    op,                   \* the call each thread is in
    cur,                  \* the local variable "connection" of the running call
    expired,              \* time.time() - start_time >= timeout, while get_connection runs
    held,                 \* connections each thread got from get_connection and has not returned
    connection,           \* DatabaseClient._local.connection, per thread
    transaction_level,    \* DatabaseClient._local.transaction_level, per thread
    exc,                  \* an exception is propagating in the thread's transaction body
    pending,              \* per connection: rows written and neither committed nor rolled back
    committed,            \* rows made durable by a commit
    next_write,           \* the next row a statement writes
    scopes,               \* per thread: the rows written in each open transaction() scope
    txlog,                \* per thread: what its current or last outermost transaction did
    last_released,        \* the caller and connection of the latest recorded
                          \* return_connection, until a get_connection returns or
                          \* close_all begins
    offered,              \* per thread: during its latest get_connection, before the timeout
                          \* elapsed, another caller's recorded return_connection put a
                          \* connection in the idle set
    max_size,             \* MemoryCacheBackend._max_size
    compressor,           \* MemoryCacheBackend._compressor: the ZlibCompressor's threshold,
                          \* or None
    cache,                \* MemoryCacheBackend._cache: the entries in dict insertion order
    stats,                \* MemoryCacheBackend._stats
    now,                  \* time.time()
    ret,                  \* the latest call of the cache's caller and how it ended
    gets,                 \* number of MemoryCacheBackend.get calls made
    calls_left,           \* number of calls the cache's callers still make
    written,              \* per key in the store: the arguments of the latest set of
                          \* the key and the time it was made
    parameters_list,      \* DatabaseClient.executemany: the argument parameters_list
    batch_size,           \* DatabaseClient._batch_size
    em,                   \* the executemany call: its position, its local variables and
                          \* the calls it made on the connection and the pool
    caller,               \* per thread that calls the cache concurrently with others:
                          \* the position in its call, the call's local variables, the
                          \* calls it still makes, whether a call raised KeyError and
                          \* what its latest get_or_set returned
    file_max_size,        \* FileCacheBackend._max_size
    files,                \* the *.cache files of FileCacheBackend._directory, in the
                          \* order glob lists them
    file_stats,           \* FileCacheBackend._stats
    eviction              \* the latest call on the file store and, if it was a set that
                          \* ran _evict_items, what that found and did

poolVars == <<min_connections, max_connections, pool, active_connections, lock, next_conn>>
callVars == <<pc, op, cur, expired, held>>
txVars == <<connection, transaction_level, exc, scopes, txlog>>
dbVars == <<pending, committed, next_write>>
histVars == <<last_released, offered>>
cacheVars == <<max_size, compressor, cache, stats, now, ret, gets, calls_left, written>>
batchVars == <<parameters_list, batch_size, em>>
raceVars == <<caller>>
fileVars == <<file_max_size, files, file_stats, eviction>>
serviceVars == <<cacheVars, batchVars, raceVars, fileVars>>
clientVars == <<poolVars, callVars, txVars, dbVars, histVars>>
vars == <<clientVars, serviceVars>>

----------------------------------------------------------------------------
\* Queue contents as a set of connections.
PoolConns == {pool[i].conn : i \in 1..Len(pool)}

\* (connection, time.time()) as put on the queue: a fresh stamp is not stale.
Entry(c) == [conn |-> c, stale |-> FALSE]

\* range(self._min_connections) calls of _add_connection in __init__, each of
\* which may fail or be refused at max_connections: k connections are made.
InitialPools(mn, mx) ==
    {[i \in 1..k |-> Entry(i)] : k \in 0..(IF mn < mx THEN mn ELSE mx)}

\* (min_connections, max_connections) of the pools explored.  A pool with a
\* smaller min_connections starts as one of these whose factory failed.
PoolConfigs == {<<1, 1>>, <<2, 2>>}

InitPool(configs) ==
    /\ \E cfg \in configs :
        /\ min_connections = cfg[1]
        /\ max_connections = cfg[2]
        /\ pool \in InitialPools(cfg[1], cfg[2])
    /\ active_connections = Len(pool)
    /\ next_conn = Len(pool) + 1
    /\ lock = None

\* No transaction has run yet.
\*   state         "open" from the outermost entry to the outermost exit, then "closed"
\*   writes        the rows written since the outermost scope began
\*   failed        those written in a scope that exited with an exception
\*   nested        an inner scope was entered
\*   inner_failed  an inner scope exited with an exception
\*   exit          how the outermost scope exited: "ok" or "exc"
\*   finals        the commit and rollback calls made on the connection
\*   releases      the return_connection calls made for the connection
NoTx == [state |-> "none", writes |-> {}, failed |-> {}, nested |-> FALSE,
         inner_failed |-> FALSE, exit |-> "none", finals |-> <<>>, releases |-> 0, conn |-> None]

InitThreads ==
    /\ pc = [t \in Threads |-> "idle"]
    /\ op = [t \in Threads |-> "none"]
    /\ cur = [t \in Threads |-> None]
    /\ expired = [t \in Threads |-> FALSE]
    /\ held = [t \in Threads |-> {}]
    /\ connection = [t \in Threads |-> None]
    /\ transaction_level = [t \in Threads |-> 0]
    /\ exc = [t \in Threads |-> FALSE]
    /\ scopes = [t \in Threads |-> <<>>]
    /\ txlog = [t \in Threads |-> NoTx]

InitDb ==
    /\ pending = [c \in Conns |-> {}]
    /\ committed = {}
    /\ next_write = 1

InitHist ==
    /\ last_released = <<>>
    /\ offered = [t \in Threads |-> FALSE]

----------------------------------------------------------------------------
(* services/cache/caching_service.py: values, pickle and ZlibCompressor *)

\* Latest reading of time.time() the cache's callers see.
MaxTime == 3
\* Number of calls the caller of a CachingService makes.
MaxCalls == 3
\* Number of calls the caller of the memory store makes.
MaxStoreCalls == 4

\* Cache keys.
Keys == {"a", "b", "c"}
\* The keys the caller of the CachingService uses.
CallerKeys == {"a", "b"}
\* The value None.
PyNone == "None"
\* Values a caller stores: None, a small falsy value, a long text that zlib
\* shrinks and long noise that zlib does not shrink.
Values == {PyNone, "0", "text", "noise"}
\* A value pickle cannot serialize (an instance of a locally defined class).
Unpicklable == "local"
\* ttl arguments: None, or a number of seconds.
TTLs == {None, 1}
\* The default argument of CachingService.get.
Default == "default"

\* len(pickle.dumps(value))
PickleLen(value) == IF value \in {"text", "noise"} THEN 3 ELSE 1

\* pickle.dumps(value), for a value pickle can serialize: a byte string that
\* is in pickle format, of PickleLen(value) bytes.
pickle_dumps(value) == [format |-> "pickle", of |-> value, len |-> PickleLen(value)]

\* pickle.loads(data) raises unless data is in pickle format.
pickle_loads_raises(data) == data.format # "pickle"

\* pickle.loads(data)
pickle_loads(data) == data.of

\* zlib.compress(data, level): a byte string in zlib format.  Text shrinks,
\* everything else grows by the zlib header.
zlib_compress(data) ==
    [format |-> "zlib",
     of |-> data,
     len |-> IF data.of = "text" THEN data.len - 1 ELSE data.len + 1]

\* zlib.decompress(data) raises unless data is in zlib format.
zlib_decompress_raises(data) == data.format # "zlib"

\* zlib.decompress(data)
zlib_decompress(data) == data.of

\* ZlibCompressor.compress: (compressed_data, is_compressed)
compress(threshold, data) ==
    IF data.len < threshold
    THEN <<data, FALSE>>
    ELSE LET compressed == zlib_compress(data)
         IN  IF compressed.len < data.len
             THEN <<compressed, TRUE>>
             ELSE <<data, FALSE>>

\* ZlibCompressor.decompress raises
decompress_raises(data, is_compressed) ==
    is_compressed /\ zlib_decompress_raises(data)

\* ZlibCompressor.decompress
decompress(data, is_compressed) ==
    IF is_compressed THEN zlib_decompress(data) ELSE data

\* CachingService._create_compressor: no compressor when compression is
\* disabled, else a ZlibCompressor with the configured threshold.
Compressors == {[enabled |-> FALSE, threshold |-> 0],
                [enabled |-> TRUE, threshold |-> 2]}

\* "services.cache.memory.max_size" of the configuration.
MaxSizes == {1, 2}

\* No call made yet.
NoCall ==
    [call |-> "none", key |-> "", arg |-> "", value |-> "", raised |-> FALSE,
     cache_key |-> "", message |-> <<>>, computed |-> 0, func_raised |-> FALSE,
     backend_raised |-> FALSE]

\* No set of the key since it was last absent from the store.
NoWrite == [value |-> "", ttl |-> None, at |-> 0, stored |-> FALSE]

\* MemoryCacheBackend.__init__, for the configurations (max_size, compressor).
InitBackend(sizes, compressors) ==
    /\ max_size \in sizes
    /\ compressor \in compressors
    /\ cache = <<>>
    /\ stats = [hits |-> 0, misses |-> 0, evictions |-> 0, size |-> 0]
    /\ now = 1
    /\ ret = NoCall
    /\ gets = 0
    /\ written = [k \in Keys |-> NoWrite]

\* A new store and callers that make n calls.
InitCache(sizes, compressors, n) ==
    /\ InitBackend(sizes, compressors)
    /\ calls_left = n

\* The memory store of a program that makes no cache call.
IdleCache == InitCache({2}, {[enabled |-> FALSE, threshold |-> 0]}, 0)

\* An executemany call of a client inside a transaction or not, before its
\* first statement.
NewCall(in_tx) ==
    [pc |-> "start", in_tx |-> in_tx, i |-> 0, connects |-> 0, connection |-> FALSE,
     sent |-> <<>>, rowcounts |-> <<>>, total_affected |-> 0, commits |-> 0,
     releases |-> 0, failed |-> FALSE, result |-> 0]

\* executemany(query, parameters_list) for the (len(parameters_list),
\* batch_size) of inputs; the parameter sets are numbered in list order.
InitBatch(inputs) ==
    /\ \E input \in inputs :
        /\ parameters_list = [k \in 1..input[1] |-> k]
        /\ batch_size = input[2]
    /\ em \in {NewCall(in_tx) : in_tx \in BOOLEAN}

\* A program that does not call executemany.
IdleBatch ==
    /\ parameters_list = <<>>
    /\ batch_size = 1
    /\ em = NewCall(FALSE)

\* A thread that calls the cache n times, before its first call.
NewCaller(n) ==
    [pc |-> "idle", key |-> "", entry |-> <<>>, size |-> 0, counter |-> "", delta |-> 0,
     read |-> 0, left |-> n, key_error |-> FALSE, value |-> "", result |-> ""]

\* Threads that make n calls each on the cache.
InitCallers(n) == caller = [t \in Threads |-> NewCaller(n)]

\* No call was made on the file store.
NoEviction ==
    [call |-> "none", ran |-> FALSE, tracked |-> 0, found |-> <<>>, deleted |-> <<>>,
     kept |-> <<>>]

\* The call made on the file store ran no _evict_items.
Called(call) == [NoEviction EXCEPT !.call = call]

\* The sum of a sequence of numbers.
RECURSIVE SumSeq(_)
SumSeq(numbers) ==
    IF numbers = <<>> THEN 0 ELSE Head(numbers) + SumSeq(Tail(numbers))

\* The total st_size of the files fs.
TotalSize(fs) == SumSeq([i \in 1..Len(fs) |-> fs[i].size])

\* FileCacheBackend.__init__ with max_size one of sizes, on a directory that
\* holds one of the file lists dirs: _update_size_stats scans the directory.
InitFiles(sizes, dirs) ==
    /\ file_max_size \in sizes
    /\ files \in dirs
    /\ file_stats = [hits |-> 0, misses |-> 0, evictions |-> 0, size |-> TotalSize(files)]
    /\ eviction = NoEviction

\* The file store of a program that makes no cache call.
IdleFiles == InitFiles({4}, {<<>>})

\* A program that calls neither the cache nor executemany.
IdleServices == IdleCache /\ IdleBatch /\ InitCallers(0) /\ IdleFiles

\* A program that has made no connection.
IdleClient == InitPool({<<0, 1>>}) /\ InitThreads /\ InitDb /\ InitHist

\* The program after construction of the pool and the client.
Init ==
    InitPool(PoolConfigs) /\ InitThreads /\ InitDb /\ InitHist /\ IdleServices

----------------------------------------------------------------------------
(* ConnectionPool.get_connection *)

GetConnectionPcs == {"gc_loop", "gc_get", "gc_validate", "gc_dec", "gc_add", "gc_add_inc"}

\* The calls that run a statement.
StatementKinds == {"execute", "executemany", "query"}

\* A transaction begins: what the outermost scope has done so far.
OpenTx(c) == [NoTx EXCEPT !.state = "open", !.conn = c]

\* start_time = time.time(), on behalf of call o
GetConnectionStart(t, o) ==
    /\ pc[t] = "idle"
    /\ pc' = [pc EXCEPT ![t] = "gc_loop"]
    /\ op' = [op EXCEPT ![t] = o]
    /\ offered' = [offered EXCEPT ![t] = FALSE]
    /\ UNCHANGED <<serviceVars, poolVars, cur, expired, held, txVars, dbVars, last_released>>

\* Variant: a loop that never tests the timeout (while True).
LoopContinuesAlways(t) == TRUE

\* while time.time() - start_time < self._timeout
LoopContinues(t) == ~expired[t]

\* return connection: get_connection hands c to the call that asked for it.
\*   connect():      the caller holds c
\*   transaction():  self._local.connection = c; transaction_level = 0, then += 1
\*   a statement:    c is its local "connection"; the statement runs next
ReturnToCaller(t, c) ==
    /\ held' = [held EXCEPT ![t] = @ \cup {c}]
    /\ expired' = [expired EXCEPT ![t] = FALSE]
    /\ last_released' = <<>>
    /\ IF op[t] \in StatementKinds
       THEN /\ pc' = [pc EXCEPT ![t] = "run"]
            /\ cur' = [cur EXCEPT ![t] = c]
            /\ UNCHANGED <<op, txVars>>
       ELSE /\ pc' = [pc EXCEPT ![t] = "idle"]
            /\ op' = [op EXCEPT ![t] = "none"]
            /\ cur' = [cur EXCEPT ![t] = None]
            /\ IF op[t] = "transaction"
               THEN /\ connection' = [connection EXCEPT ![t] = c]
                    /\ transaction_level' = [transaction_level EXCEPT ![t] = 1]
                    /\ scopes' = [scopes EXCEPT ![t] = <<{}>>]
                    /\ txlog' = [txlog EXCEPT ![t] = OpenTx(c)]
                    /\ UNCHANGED exc
               ELSE UNCHANGED txVars

\* The loop test; after the loop: raise ConnectionError
LoopTest(t) ==
    /\ pc[t] = "gc_loop"
    /\ pc' = [pc EXCEPT ![t] = IF LoopContinues(t) THEN "gc_get" ELSE "raise"]
    /\ UNCHANGED <<serviceVars, poolVars, op, cur, expired, held, txVars, dbVars, histVars>>

\* The exception of a call made outside every transaction() scope reaches
\* the caller of the client.
Propagate(t) ==
    /\ pc[t] = "raise"
    /\ pc' = [pc EXCEPT ![t] = "idle"]
    /\ op' = [op EXCEPT ![t] = "none"]
    /\ expired' = [expired EXCEPT ![t] = FALSE]
    /\ txlog' = [txlog EXCEPT ![t] = NoTx]
    /\ UNCHANGED <<serviceVars, poolVars, cur, held, connection, transaction_level, exc, scopes,
                   dbVars, histVars>>

\* Variant: the idle entry is read and left on the queue.
PoolGetPeek(t) ==
    /\ pc[t] = "gc_get"
    /\ IF pool = <<>>
       THEN /\ pc' = [pc EXCEPT ![t] = "gc_add"]
            /\ UNCHANGED <<op, cur, expired, held, txVars, last_released>>
       ELSE IF Head(pool).stale
            THEN /\ pc' = [pc EXCEPT ![t] = "gc_validate"]
                 /\ cur' = [cur EXCEPT ![t] = Head(pool).conn]
                 /\ UNCHANGED <<op, expired, held, txVars, last_released>>
            ELSE ReturnToCaller(t, Head(pool).conn)
    /\ UNCHANGED <<serviceVars, poolVars, dbVars, offered>>

\* connection, last_used = self._pool.get(block=False), and the test of last_used
PoolGet(t) ==
    /\ pc[t] = "gc_get"
    /\ IF pool = <<>>
       THEN \* except Empty
            /\ pc' = [pc EXCEPT ![t] = "gc_add"]
            /\ UNCHANGED <<pool, op, cur, expired, held, txVars, last_released>>
       ELSE /\ pool' = Tail(pool)
            /\ IF Head(pool).stale
               THEN /\ pc' = [pc EXCEPT ![t] = "gc_validate"]
                    /\ cur' = [cur EXCEPT ![t] = Head(pool).conn]
                    /\ UNCHANGED <<op, expired, held, txVars, last_released>>
               ELSE ReturnToCaller(t, Head(pool).conn)
    /\ UNCHANGED <<serviceVars, min_connections, max_connections, active_connections, lock,
                   next_conn, dbVars, offered>>

\* Variant: a connection that fails the probe is put back on the queue.
ValidateRequeues(t) ==
    /\ pc[t] = "gc_validate"
    /\ \E valid \in BOOLEAN :
        IF valid
        THEN /\ ReturnToCaller(t, cur[t])
             /\ UNCHANGED pool
        ELSE /\ pc' = [pc EXCEPT ![t] = "gc_dec"]
             /\ cur' = [cur EXCEPT ![t] = None]
             /\ pool' = Append(pool, Entry(cur[t]))
             /\ UNCHANGED <<op, expired, held, txVars, last_released>>
    /\ UNCHANGED <<serviceVars, min_connections, max_connections, active_connections, lock,
                   next_conn, dbVars, offered>>

\* if self._validate_connection(connection): the probe passes or fails
Validate(t) ==
    /\ pc[t] = "gc_validate"
    /\ \E valid \in BOOLEAN :
        IF valid
        THEN ReturnToCaller(t, cur[t])
        ELSE /\ pc' = [pc EXCEPT ![t] = "gc_dec"]
             /\ cur' = [cur EXCEPT ![t] = None]
             /\ UNCHANGED <<op, expired, held, txVars, last_released>>
    /\ UNCHANGED <<serviceVars, poolVars, dbVars, offered>>

\* with self._lock: self._active_connections -= 1
Decrement(t) ==
    /\ pc[t] = "gc_dec"
    /\ lock = None
    /\ active_connections' = active_connections - 1
    /\ pc' = [pc EXCEPT ![t] = "gc_add"]
    /\ UNCHANGED <<serviceVars, min_connections, max_connections, pool, lock, next_conn,
                   op, cur, expired, held, txVars, dbVars, histVars>>

\* Variant: the capacity test with > for >=.
AtCapacityOffByOne == active_connections > max_connections

\* Variant: no capacity test.
AtCapacityNever == FALSE

\* if self._active_connections >= self._max_connections: return False
AtCapacity == active_connections >= max_connections

\* _add_connection up to self._pool.put: the lock is taken; at capacity, or
\* when the factory raises, the call returns False and the lock is released.
AddConnection(t) ==
    /\ pc[t] = "gc_add"
    /\ lock = None
    /\ IF AtCapacity
       THEN /\ pc' = [pc EXCEPT ![t] = "gc_loop"]
            /\ UNCHANGED <<pool, lock, next_conn>>
       ELSE \/ \* self._create_connection() raises
               /\ pc' = [pc EXCEPT ![t] = "gc_loop"]
               /\ UNCHANGED <<pool, lock, next_conn>>
            \/ /\ next_conn <= MaxConns
               /\ pool' = Append(pool, Entry(next_conn))
               /\ next_conn' = next_conn + 1
               /\ lock' = t
               /\ pc' = [pc EXCEPT ![t] = "gc_add_inc"]
    /\ UNCHANGED <<serviceVars, min_connections, max_connections, active_connections,
                   op, cur, expired, held, txVars, dbVars, histVars>>

\* self._active_connections += 1; return True (the lock is released)
AddConnectionInc(t) ==
    /\ pc[t] = "gc_add_inc"
    /\ active_connections' = active_connections + 1
    /\ lock' = None
    /\ pc' = [pc EXCEPT ![t] = "gc_loop"]
    /\ UNCHANGED <<serviceVars, min_connections, max_connections, pool, next_conn,
                   op, cur, expired, held, txVars, dbVars, histVars>>

\* The clock passes start_time + timeout while get_connection runs.
Expire(t) ==
    /\ pc[t] \in GetConnectionPcs
    /\ ~expired[t]
    /\ expired' = [expired EXCEPT ![t] = TRUE]
    /\ UNCHANGED <<serviceVars, poolVars, pc, op, cur, held, txVars, dbVars, histVars>>

\* The clock passes last_used + validation_interval for an idle entry.
GoStale(i) ==
    /\ i \in 1..Len(pool)
    /\ ~pool[i].stale
    /\ pool' = [pool EXCEPT ![i].stale = TRUE]
    /\ UNCHANGED <<serviceVars, min_connections, max_connections, active_connections, lock,
                   next_conn, callVars, txVars, dbVars, histVars>>

GetConnectionStep(t) ==
    \/ LoopTest(t)
    \/ Propagate(t)
    \/ PoolGet(t)
    \/ Validate(t)
    \/ Decrement(t)
    \/ AddConnection(t)
    \/ AddConnectionInc(t)

----------------------------------------------------------------------------
(* DatabaseClient.connect and release, called outside a transaction, as    *)
(* test_connection_pooling calls them: get_connection and                  *)
(* return_connection of the pool.                                          *)

Connect(t) ==
    /\ connection[t] = None
    /\ GetConnectionStart(t, "connect")

\* self._pool.put((connection, time.time())) of a connection the caller got
\* from get_connection and has not returned.
PutBack(t, c) ==
    /\ pc[t] = "idle"
    /\ c \in held[t]
    /\ c # connection[t]
    /\ pool' = Append(pool, Entry(c))
    /\ held' = [held EXCEPT ![t] = @ \ {c}]
    /\ UNCHANGED <<serviceVars, min_connections, max_connections, active_connections, lock,
                   next_conn, pc, op, cur, expired, txVars, dbVars>>

\* ConnectionPool.return_connection
ReturnConnection(t, c) ==
    /\ PutBack(t, c)
    /\ UNCHANGED histVars

\* ConnectionPool.return_connection, with the call recorded in last_released
\* and offered.
ReturnConnectionRecorded(t, c) ==
    /\ PutBack(t, c)
    /\ last_released' = <<t, c>>
    /\ offered' = [u \in Threads |->
                      offered[u] \/ (u # t /\ pc[u] \in GetConnectionPcs /\ ~expired[u])]

----------------------------------------------------------------------------
(* ConnectionPool.close_all *)

\* with self._lock:
CloseAllStart(t) ==
    /\ pc[t] = "idle"
    /\ lock = None
    /\ lock' = t
    /\ pc' = [pc EXCEPT ![t] = "ca_loop"]
    /\ last_released' = <<>>
    /\ UNCHANGED <<serviceVars, min_connections, max_connections, pool, active_connections,
                   next_conn, op, cur, expired, held, txVars, dbVars, offered>>

\* while not self._pool.empty(): get(block=False); connection.close()
CloseAllLoop(t) ==
    /\ pc[t] = "ca_loop"
    /\ IF pool = <<>>
       THEN /\ pc' = [pc EXCEPT ![t] = "ca_reset"]
            /\ UNCHANGED pool
       ELSE /\ pool' = Tail(pool)
            /\ UNCHANGED pc
    /\ UNCHANGED <<serviceVars, min_connections, max_connections, active_connections, lock,
                   next_conn, op, cur, expired, held, txVars, dbVars, histVars>>

\* self._active_connections = 0 (the lock is released)
CloseAllReset(t) ==
    /\ pc[t] = "ca_reset"
    /\ active_connections' = 0
    /\ lock' = None
    /\ pc' = [pc EXCEPT ![t] = "idle"]
    /\ UNCHANGED <<serviceVars, min_connections, max_connections, pool, next_conn,
                   op, cur, expired, held, txVars, dbVars, histVars>>

----------------------------------------------------------------------------
NextPool ==
    \/ \E t \in Threads : Connect(t)
    \/ \E t \in Threads : GetConnectionStep(t)
    \/ \E t \in Threads : \E c \in Conns : ReturnConnection(t, c)
    \/ \E t \in Threads : CloseAllStart(t)
    \/ \E t \in Threads : CloseAllLoop(t)
    \/ \E t \in Threads : CloseAllReset(t)
    \/ \E t \in Threads : Expire(t)
    \/ \E i \in 1..MaxConns : GoStale(i)

\* Threads that call the pool through connect() and release(), and close_all.
SpecPool == Init /\ [][NextPool]_vars

\* The same threads under a fair scheduler and an advancing clock: a thread
\* that can take a step takes one, a thread waiting for the lock gets it when
\* it is free again and again, and the timeout of a running get_connection
\* elapses.
FairPool ==
    \A t \in Threads :
        /\ WF_vars(LoopTest(t) \/ PoolGet(t) \/ Validate(t) \/ AddConnectionInc(t))
        /\ WF_vars(CloseAllLoop(t) \/ CloseAllReset(t))
        /\ SF_vars(Decrement(t))
        /\ SF_vars(AddConnection(t))
        /\ WF_vars(Expire(t))

FairSpecPool == SpecPool /\ FairPool

\* Pool exhaustion: a pool of max_connections = 1 whose callers only call
\* get_connection and return_connection.
ExhaustionConfigs == {<<1, 1>>}

NextCallers ==
    \/ \E t \in Threads : Connect(t)
    \/ \E t \in Threads : GetConnectionStep(t)
    \/ \E t \in Threads : \E c \in Conns : ReturnConnectionRecorded(t, c)
    \/ \E t \in Threads : Expire(t)
    \/ \E i \in 1..MaxConns : GoStale(i)

InitExhaustion ==
    InitPool(ExhaustionConfigs) /\ InitThreads /\ InitDb /\ InitHist /\ IdleServices

SpecExhaustion == InitExhaustion /\ [][NextCallers]_vars

\* The pool of the unit tests' config fixture: min_connections 2,
\* max_connections 5.
TestConfigs == {<<2, 5>>}

InitTestPool ==
    InitPool(TestConfigs) /\ InitThreads /\ InitDb /\ InitHist /\ IdleServices

NextTestPool ==
    \/ \E t \in Threads : Connect(t)
    \/ \E t \in Threads : GetConnectionStep(t)
    \/ \E t \in Threads : \E c \in Conns : ReturnConnectionRecorded(t, c)
    \/ \E t \in Threads : CloseAllStart(t)
    \/ \E t \in Threads : CloseAllLoop(t)
    \/ \E t \in Threads : CloseAllReset(t)
    \/ \E t \in Threads : Expire(t)
    \/ \E i \in 1..MaxConns : GoStale(i)

SpecTestPool == InitTestPool /\ [][NextTestPool]_vars

----------------------------------------------------------------------------
(* The database behind the connections.  A statement's rows stay pending   *)
(* on its connection until commit makes them durable or rollback drops     *)
(* them.  A commit that raises leaves them pending.                        *)

\* cursor.fetchall() of a query on connection c: the durable rows and the
\* connection's own pending ones.
QueryResult(c) == committed \cup pending[c]

\* The rows the next n batches write.
NewRows(n) == next_write..(next_write + n - 1)

\* Largest number of batches of one executemany.
MaxBatches == 2

\* for i in range(0, len(parameters_list), self._batch_size): the number of
\* cursor.execute / cursor.executemany calls of a statement call.
Batches(kind) ==
    CASE kind = "execute" -> {1}
      [] kind = "executemany" -> 1..MaxBatches
      [] OTHER -> {0}

----------------------------------------------------------------------------
(* DatabaseClient.execute, executemany and query *)

\* Variant: a statement call that commits at every nesting depth.
CommitsNowAlways(t) == TRUE

\* "Only commit if not in a transaction":
\* if not hasattr(self._local, 'transaction_level') or
\*    self._local.transaction_level == 0: connection.commit()
CommitsNow(t) == transaction_level[t] = 0

\* execute and executemany call connection.commit(); query does not.
CommitsAfter(kind) == kind # "query"

\* DatabaseClient.release(connection) with transaction_level = lvl:
\* "Don't release if in a transaction", else return_connection.
ReleasedPool(lvl, c) == IF lvl > 0 THEN pool ELSE Append(pool, Entry(c))

\* Variant: the test of the finally clause inverted.
StatementReleasesInverted(t) == transaction_level[t] > 0

\* The finally clause of a statement call:
\* if connection and (not hasattr(self._local, 'transaction_level') or
\*    self._local.transaction_level == 0): self.release(connection)
StatementReleases(t) == transaction_level[t] = 0

\* The body of execute / executemany / query on connection c, from
\* connection.cursor() to the finally clause.  sent batches of n succeed; the
\* call raises DatabaseError when a batch, the query or the commit raises.
RunStatement(t, c, kind) ==
    \E n \in Batches(kind), fails \in BOOLEAN, commit_ok \in BOOLEAN :
    \E sent \in 0..n :
        LET rows == NewRows(sent)
            stmt_ok == sent = n /\ ~fails
            commits == stmt_ok /\ CommitsAfter(kind) /\ CommitsNow(t)
            raises == ~stmt_ok \/ (commits /\ ~commit_ok)
            intx == transaction_level[t] > 0
            puts == StatementReleases(t) /\ ReleasedPool(transaction_level[t], c) # pool
        IN  /\ next_write + sent - 1 <= MaxWrites
            /\ sent = n => (fails => kind = "query")
            /\ commits \/ commit_ok
            /\ next_write' = next_write + sent
            /\ IF commits /\ commit_ok
               THEN /\ committed' = committed \cup pending[c] \cup rows
                    /\ pending' = [pending EXCEPT ![c] = {}]
               ELSE /\ pending' = [pending EXCEPT ![c] = @ \cup rows]
                    /\ UNCHANGED committed
            /\ IF puts
               THEN /\ pool' = ReleasedPool(transaction_level[t], c)
                    /\ held' = [held EXCEPT ![t] = @ \ {c}]
               ELSE UNCHANGED <<pool, held>>
            /\ cur' = [cur EXCEPT ![t] = None]
            /\ IF intx
               THEN \* the exception is raised into the transaction body
                    /\ exc' = [exc EXCEPT ![t] = raises]
                    /\ scopes' = [scopes EXCEPT ![t][Len(scopes[t])] = @ \cup rows]
                    /\ txlog' = [txlog EXCEPT ![t].writes = @ \cup rows,
                                             ![t].finals =
                                                 IF commits
                                                 THEN Append(@, IF commit_ok
                                                                THEN "commit"
                                                                ELSE "commit_failed")
                                                 ELSE @]
                    /\ pc' = [pc EXCEPT ![t] = "idle"]
                    /\ op' = [op EXCEPT ![t] = "none"]
               ELSE /\ pc' = [pc EXCEPT ![t] = IF raises THEN "raise" ELSE "idle"]
                    /\ op' = [op EXCEPT ![t] = IF raises THEN kind ELSE "none"]
                    /\ UNCHANGED <<exc, scopes, txlog>>
            /\ UNCHANGED <<serviceVars, min_connections, max_connections, active_connections,
                           lock, next_conn, expired, connection, transaction_level,
                           histVars>>

\* A statement call.  "if hasattr(self._local, 'connection') and
\* self._local.connection is not None: connection = self._local.connection":
\* inside a transaction the statement runs on the transaction's connection;
\* "else: connection = self.connect()".
Statement(t, kind) ==
    /\ pc[t] = "idle"
    /\ ~exc[t]
    /\ IF connection[t] # None
       THEN RunStatement(t, connection[t], kind)
       ELSE GetConnectionStart(t, kind)

\* The statement runs on the connection get_connection returned.
StatementRun(t) ==
    /\ pc[t] = "run"
    /\ RunStatement(t, cur[t], op[t])

----------------------------------------------------------------------------
(* DatabaseClient.transaction *)

\* Variant: commit and rollback at the exit of every scope.
IsOutermostAlways(t) == TRUE

\* if self._local.transaction_level == 1 (in the try and the except clause)
IsOutermost(t) == transaction_level[t] = 1

\* if self._local.transaction_level == 0 (in the finally clause, after the
\* decrement to lvl)
LastScopeLeft(lvl) == lvl = 0

\* with db_client.transaction(): entry.  Without a connection of its own the
\* thread connects first (ReturnToCaller sets the level to 1); with one, the
\* level is incremented.
TxEnter(t) ==
    /\ pc[t] = "idle"
    /\ ~exc[t]
    /\ transaction_level[t] < MaxDepth
    /\ IF connection[t] = None
       THEN GetConnectionStart(t, "transaction")
       ELSE /\ transaction_level' = [transaction_level EXCEPT ![t] = @ + 1]
            /\ scopes' = [scopes EXCEPT ![t] = Append(@, {})]
            /\ txlog' = [txlog EXCEPT ![t].nested = TRUE]
            /\ UNCHANGED <<serviceVars, poolVars, callVars, connection, exc, dbVars, histVars>>

\* The body of a scope raises (a statement's DatabaseError is raised by
\* RunStatement).
Raise(t) ==
    /\ pc[t] = "idle"
    /\ transaction_level[t] > 0
    /\ ~exc[t]
    /\ exc' = [exc EXCEPT ![t] = TRUE]
    /\ UNCHANGED <<serviceVars, poolVars, callVars, connection, transaction_level, scopes, txlog,
                   dbVars, histVars>>

\* A try/except in the body of a scope catches the exception raised in the
\* body or by an inner scope, and the body goes on.
Catch(t) ==
    /\ pc[t] = "idle"
    /\ transaction_level[t] > 0
    /\ exc[t]
    /\ exc' = [exc EXCEPT ![t] = FALSE]
    /\ UNCHANGED <<serviceVars, poolVars, callVars, connection, transaction_level, scopes, txlog,
                   dbVars, histVars>>

\* The rows of the scopes that stay open, after the innermost is left.
RemainingScopes(sc, raised) ==
    LET n == Len(sc)
        rest == SubSeq(sc, 1, n - 1)
    IN  IF raised \/ n < 2
        THEN rest
        ELSE [rest EXCEPT ![n - 1] = @ \cup sc[n]]

\* The exit of the innermost open scope: the code after "yield", the except
\* clause and the finally clause.  body_raised: the body ended with an
\* exception.  connection.commit() may raise, which enters the except clause;
\* connection.rollback() is taken to succeed.
ExitScope(t, body_raised) ==
    \E commit_ok \in BOOLEAN :
        LET c == connection[t]
            tries_commit == ~body_raised /\ IsOutermost(t)
            did_commit == tries_commit /\ commit_ok
            raised == body_raised \/ (tries_commit /\ ~commit_ok)
            rolls == raised /\ IsOutermost(t)
            lvl == transaction_level[t] - 1
            leaves == LastScopeLeft(lvl)
            puts == leaves /\ ReleasedPool(lvl, c) # pool
            calls == (IF tries_commit
                      THEN <<IF commit_ok THEN "commit" ELSE "commit_failed">>
                      ELSE <<>>)
                     \o (IF rolls THEN <<"rollback">> ELSE <<>>)
            top == scopes[t][Len(scopes[t])]
        IN  /\ tries_commit \/ commit_ok
            /\ committed' = IF did_commit THEN committed \cup pending[c] ELSE committed
            /\ pending' = IF did_commit \/ rolls
                          THEN [pending EXCEPT ![c] = {}]
                          ELSE pending
            /\ transaction_level' = [transaction_level EXCEPT ![t] = lvl]
            /\ scopes' = [scopes EXCEPT ![t] = RemainingScopes(@, raised)]
            /\ txlog' = [txlog EXCEPT
                   ![t].finals = @ \o calls,
                   ![t].failed = IF raised THEN @ \cup top ELSE @,
                   ![t].inner_failed = @ \/ (raised /\ Len(scopes[t]) > 1),
                   ![t].releases = IF puts THEN @ + 1 ELSE @,
                   ![t].state = IF leaves THEN "closed" ELSE @,
                   ![t].exit = IF leaves THEN (IF raised THEN "exc" ELSE "ok") ELSE @]
            /\ IF leaves
               THEN /\ connection' = [connection EXCEPT ![t] = None]
                    /\ pool' = ReleasedPool(lvl, c)
                    /\ held' = [held EXCEPT ![t] = IF puts THEN @ \ {c} ELSE @]
                    /\ exc' = [exc EXCEPT ![t] = FALSE]
                    /\ pc' = [pc EXCEPT ![t] = IF raised THEN "raise" ELSE "exited"]
                    /\ op' = [op EXCEPT ![t] = "transaction"]
               ELSE /\ exc' = [exc EXCEPT ![t] = raised]
                    /\ UNCHANGED <<connection, pool, held, pc, op>>
            /\ UNCHANGED <<serviceVars, min_connections, max_connections, active_connections,
                           lock, next_conn, cur, expired, next_write, histVars>>

\* The body of the innermost scope ends normally.
TxExitNormal(t) ==
    /\ pc[t] = "idle"
    /\ transaction_level[t] > 0
    /\ ~exc[t]
    /\ ExitScope(t, FALSE)

\* The exception raised in the body leaves the innermost scope.
TxExitException(t) ==
    /\ pc[t] = "idle"
    /\ transaction_level[t] > 0
    /\ exc[t]
    /\ ExitScope(t, TRUE)

\* The statement after the outermost "with" block runs.
Resume(t) ==
    /\ pc[t] = "exited"
    /\ pc' = [pc EXCEPT ![t] = "idle"]
    /\ op' = [op EXCEPT ![t] = "none"]
    /\ txlog' = [txlog EXCEPT ![t] = NoTx]
    /\ UNCHANGED <<serviceVars, poolVars, cur, expired, held, connection, transaction_level, exc,
                   scopes, dbVars, histVars>>

----------------------------------------------------------------------------
\* The threads of the client scenario, and the one that runs transactions.
ClientThreads == {1, 2}
TxThreads == {1}

NextClient ==
    \/ \E t \in ClientThreads : \E kind \in StatementKinds : Statement(t, kind)
    \/ \E t \in ClientThreads : StatementRun(t)
    \/ \E t \in TxThreads : TxEnter(t)
    \/ \E t \in TxThreads : Raise(t)
    \/ \E t \in TxThreads : Catch(t)
    \/ \E t \in TxThreads : TxExitNormal(t)
    \/ \E t \in TxThreads : TxExitException(t)
    \/ \E t \in TxThreads : Resume(t)
    \/ \E t \in ClientThreads : LoopTest(t)
    \/ \E t \in ClientThreads : Propagate(t)
    \/ \E t \in ClientThreads : PoolGet(t)
    \/ \E t \in ClientThreads : AddConnection(t)
    \/ \E t \in ClientThreads : AddConnectionInc(t)
    \/ \E t \in ClientThreads : Expire(t)

\* Two threads share one DatabaseClient: both call execute, executemany and
\* query, and the first also runs transaction() scopes (transaction state is
\* thread-local, so one thread in transactions stands for each).  No
\* connection stays idle for longer than validation_interval here, and
\* close() is not called.
SpecClient == Init /\ [][NextClient]_vars

----------------------------------------------------------------------------
(* MemoryCacheBackend.  _cache is a dict: the model keeps its entries in    *)
(* insertion order, each a record of the key and the five fields of the     *)
(* stored tuple.  Every operation is a function from the store, the         *)
(* counters and the time to the store and the counters it leaves, the       *)
(* value it returns and whether it raises.                                  *)

\* key in self._cache
Has(c, key) == \E i \in 1..Len(c) : c[i].key = key

\* self._cache[key]
Lookup(c, key) == c[CHOOSE i \in 1..Len(c) : c[i].key = key]

\* Variant: del leaves the entry in the dict.
DelKeeps(c, key) == c

\* del self._cache[key]
Del(c, key) == SelectSeq(c, LAMBDA e : e.key # key)

\* self._cache[key] = (...): an existing key keeps its place in the dict, a
\* new one goes last.
Assign(c, entry) ==
    IF Has(c, entry.key)
    THEN [i \in 1..Len(c) |-> IF c[i].key = entry.key THEN entry ELSE c[i]]
    ELSE Append(c, entry)

\* Variant: an entry expires at its expiry time already.
IsExpiredAtExpiry(expiry_time, t) == expiry_time # None /\ t >= expiry_time

\* expiry_time is not None and time.time() > expiry_time
IsExpired(expiry_time, t) == expiry_time # None /\ t > expiry_time

\* Variant: eviction only when the store is over max_size.
NeedsEvictionLate(c, key) == Len(c) > max_size /\ ~Has(c, key)

\* len(self._cache) >= self._max_size and key not in self._cache
NeedsEviction(c, key) == Len(c) >= max_size /\ ~Has(c, key)

\* items.sort(key=lambda x: x[1][2]): a stable sort by last access time.
RECURSIVE SortByLastAccess(_)
SortByLastAccess(items) ==
    IF items = <<>>
    THEN <<>>
    ELSE LET n == Len(items)
             i == CHOOSE i \in 1..n :
                      /\ \A j \in 1..n : items[i].last_access <= items[j].last_access
                      /\ \A j \in 1..(i - 1) : items[j].last_access # items[i].last_access
         IN  <<items[i]>> \o SortByLastAccess(SubSeq(items, 1, i - 1) \o SubSeq(items, i + 1, n))

\* Variant: a fifth of the entries.
NumToEvictFifth(n) == IF n \div 5 > 1 THEN n \div 5 ELSE 1

\* num_to_evict = max(1, len(items) // 10)
NumToEvict(n) == IF n \div 10 > 1 THEN n \div 10 ELSE 1

\* for i in range(num_to_evict): ... from iteration i on; s is the store and
\* the counters so far.
RECURSIVE EvictLoop(_, _, _, _)
EvictLoop(items, i, num_to_evict, s) ==
    IF i >= num_to_evict
    THEN s
    ELSE EvictLoop(items, i + 1, num_to_evict,
             IF i < Len(items) /\ Has(s.cache, items[i + 1].key)
             THEN [cache |-> Del(s.cache, items[i + 1].key),
                   stats |-> [s.stats EXCEPT !.size = @ - items[i + 1].size,
                                             !.evictions = @ + 1]]
             ELSE s)

\* MemoryCacheBackend._evict_items
EvictItems(c, st) ==
    LET items == SortByLastAccess(c)
    IN  EvictLoop(items, 0, NumToEvict(Len(items)), [cache |-> c, stats |-> st])

\* The tuple MemoryCacheBackend.set stores for the key at time t, with the key.
StoredEntry(key, value, ttl, t) ==
    LET expiry_time == IF ttl # None THEN t + ttl ELSE None
        serialized == pickle_dumps(value)
        size == serialized.len
        stored == IF compressor.enabled
                  THEN compress(compressor.threshold, serialized)
                  ELSE <<serialized, FALSE>>
    IN  [key |-> key,
         serialized |-> stored[1],
         expiry_time |-> expiry_time,
         last_access |-> t,
         is_compressed |-> stored[2],
         size |-> size]

\* MemoryCacheBackend.set at time t.  pickle.dumps raises after the eviction.
BackendSet(c, st, key, value, ttl, t) ==
    LET evicted == IF NeedsEviction(c, key)
                   THEN EvictItems(c, st)
                   ELSE [cache |-> c, stats |-> st]
        entry == StoredEntry(key, value, ttl, t)
    IN  IF value = Unpicklable
        THEN [cache |-> evicted.cache, stats |-> evicted.stats, raised |-> TRUE]
        ELSE [cache |-> Assign(evicted.cache, entry),
              stats |-> [evicted.stats EXCEPT !.size = @ + entry.size],
              raised |-> FALSE]

\* MemoryCacheBackend.get at time t
BackendGet(c, st, key, t) ==
    IF ~Has(c, key)
    THEN [cache |-> c, stats |-> [st EXCEPT !.misses = @ + 1],
          value |-> PyNone, raised |-> FALSE]
    ELSE LET e == Lookup(c, key)
             touched == Assign(c, [e EXCEPT !.last_access = t])
             data == IF compressor.enabled
                     THEN decompress(e.serialized, e.is_compressed)
                     ELSE e.serialized
         IN  IF IsExpired(e.expiry_time, t)
             THEN [cache |-> Del(c, key), stats |-> [st EXCEPT !.misses = @ + 1],
                   value |-> PyNone, raised |-> FALSE]
             ELSE IF compressor.enabled /\ decompress_raises(e.serialized, e.is_compressed)
             THEN [cache |-> touched, stats |-> st, value |-> PyNone, raised |-> TRUE]
             ELSE IF pickle_loads_raises(data)
             THEN [cache |-> touched, stats |-> [st EXCEPT !.hits = @ + 1],
                   value |-> PyNone, raised |-> TRUE]
             ELSE [cache |-> touched, stats |-> [st EXCEPT !.hits = @ + 1],
                   value |-> pickle_loads(data), raised |-> FALSE]

\* MemoryCacheBackend.delete
BackendDelete(c, st, key) ==
    IF Has(c, key)
    THEN [cache |-> Del(c, key),
          stats |-> [st EXCEPT !.size = @ - Lookup(c, key).size],
          value |-> TRUE]
    ELSE [cache |-> c, stats |-> st, value |-> FALSE]

\* MemoryCacheBackend.clear
BackendClear(c, st) == [cache |-> <<>>, stats |-> [st EXCEPT !.size = 0]]

\* MemoryCacheBackend.has_key at time t
BackendHasKey(c, st, key, t) ==
    IF ~Has(c, key)
    THEN [cache |-> c, stats |-> st, value |-> FALSE]
    ELSE IF IsExpired(Lookup(c, key).expiry_time, t)
    THEN [cache |-> Del(c, key), stats |-> st, value |-> FALSE]
    ELSE [cache |-> c, stats |-> st, value |-> TRUE]

----------------------------------------------------------------------------
(* CachingService over the memory backend.  A call runs to its end before   *)
(* the caller's next one.  fault says that the backend call raises before   *)
(* it changes anything, as a backend other than the memory store can.       *)

\* Variant: no value is taken for a miss.
IsNoneNever(value) == FALSE

\* value is None
IsNone(value) == value = PyNone

\* CacheError(message, cache_key=key) raised by operation call, caused by an
\* exception whose str() is original.
CacheError(call, key, arg, text, original, computed) ==
    [call |-> call, key |-> key, arg |-> arg, value |-> "", raised |-> TRUE,
     cache_key |-> key, message |-> <<text, original>>, computed |-> computed,
     func_raised |-> FALSE, backend_raised |-> TRUE]

\* Operation call returns value.  backend_raised says that the backend call
\* raised, func_raised that value_func did.
Returned(call, key, arg, value, computed) ==
    [call |-> call, key |-> key, arg |-> arg, value |-> value, raised |-> FALSE,
     cache_key |-> "", message |-> <<>>, computed |-> computed, func_raised |-> FALSE,
     backend_raised |-> FALSE]

\* A bool as the caller sees it.
Bool(b) == IF b THEN "True" ELSE "False"

\* CachingService.get: the store and counters left and the value returned.
FacadeGet(c, st, key, default, t, fault) ==
    LET b == BackendGet(c, st, key, t)
    IN  IF fault
        THEN [cache |-> c, stats |-> st, value |-> default]
        ELSE IF b.raised
        THEN [cache |-> b.cache, stats |-> b.stats, value |-> default]
        ELSE [cache |-> b.cache, stats |-> b.stats,
              value |-> IF IsNone(b.value) THEN default ELSE b.value]

\* Variant: set returns normally when the backend raises.
FacadeSetSwallows(c, st, key, value, ttl, t, fault) ==
    [cache |-> c, stats |-> st, raised |-> FALSE, original |-> ""]

\* CachingService.set: the store and counters left, and whether CacheError is
\* raised and for which exception.
FacadeSet(c, st, key, value, ttl, t, fault) ==
    LET b == BackendSet(c, st, key, value, ttl, t)
    IN  IF fault
        THEN [cache |-> c, stats |-> st, raised |-> TRUE, original |-> "fault"]
        ELSE [cache |-> b.cache, stats |-> b.stats, raised |-> b.raised,
              original |-> IF b.raised THEN "PicklingError" ELSE ""]

\* The record of a set of value with ttl at time t.
Write(value, ttl, t) == [value |-> value, ttl |-> ttl, at |-> t, stored |-> TRUE]

\* written after a call that leaves store c and has set the keys of the
\* function sets.
Written(c, key, sets) ==
    [k \in Keys |-> IF ~Has(c, k) THEN NoWrite
                    ELSE IF k = key /\ sets # <<>> THEN sets[1]
                    ELSE written[k]]

\* cache.set(key, value, ttl)
Set(key, value, ttl, fault) ==
    LET r == FacadeSet(cache, stats, key, value, ttl, now, fault)
    IN  /\ calls_left > 0
        /\ calls_left' = calls_left - 1
        /\ cache' = r.cache
        /\ stats' = r.stats
        /\ ret' = [(IF r.raised
                    THEN CacheError("set", key, value, "Failed to set cache value",
                                    r.original, 0)
                    ELSE Returned("set", key, value, PyNone, 0))
                   EXCEPT !.backend_raised =
                       fault \/ BackendSet(cache, stats, key, value, ttl, now).raised]
        /\ written' = Written(r.cache, key,
                              IF r.raised THEN <<>> ELSE <<Write(value, ttl, now)>>)
        /\ UNCHANGED <<clientVars, batchVars, raceVars, fileVars, max_size, compressor, now, gets>>

\* cache.get(key, default)
Get(key, default, fault) ==
    LET r == FacadeGet(cache, stats, key, default, now, fault)
    IN  /\ calls_left > 0
        /\ calls_left' = calls_left - 1
        /\ cache' = r.cache
        /\ stats' = r.stats
        /\ ret' = [Returned("get", key, default, r.value, 0)
                   EXCEPT !.backend_raised =
                       fault \/ BackendGet(cache, stats, key, now).raised]
        /\ gets' = IF fault THEN gets ELSE gets + 1
        /\ written' = Written(r.cache, key, <<>>)
        /\ UNCHANGED <<clientVars, batchVars, raceVars, fileVars, max_size, compressor, now>>

\* cache.delete(key)
Delete(key, fault) ==
    LET b == BackendDelete(cache, stats, key)
    IN  /\ calls_left > 0
        /\ calls_left' = calls_left - 1
        /\ IF fault
           THEN /\ ret' = CacheError("delete", key, "", "Failed to delete cache value",
                                     "fault", 0)
                /\ UNCHANGED <<cache, stats, written>>
           ELSE /\ cache' = b.cache
                /\ stats' = b.stats
                /\ ret' = Returned("delete", key, "", Bool(b.value), 0)
                /\ written' = Written(b.cache, key, <<>>)
        /\ UNCHANGED <<clientVars, batchVars, raceVars, fileVars, max_size, compressor, now, gets>>

\* cache.clear()
Clear(fault) ==
    LET b == BackendClear(cache, stats)
    IN  /\ calls_left > 0
        /\ calls_left' = calls_left - 1
        /\ IF fault
           THEN /\ ret' = [CacheError("clear", "", "", "Failed to clear cache",
                                      "fault", 0) EXCEPT !.cache_key = ""]
                /\ UNCHANGED <<cache, stats, written>>
           ELSE /\ cache' = b.cache
                /\ stats' = b.stats
                /\ ret' = Returned("clear", "", "", PyNone, 0)
                /\ written' = Written(b.cache, "", <<>>)
        /\ UNCHANGED <<clientVars, batchVars, raceVars, fileVars, max_size, compressor, now, gets>>

\* cache.has_key(key)
HasKey(key, fault) ==
    LET b == BackendHasKey(cache, stats, key, now)
    IN  /\ calls_left > 0
        /\ calls_left' = calls_left - 1
        /\ IF fault
           THEN /\ ret' = [Returned("has_key", key, "", Bool(FALSE), 0)
                           EXCEPT !.backend_raised = TRUE]
                /\ UNCHANGED <<cache, stats, written>>
           ELSE /\ cache' = b.cache
                /\ stats' = b.stats
                /\ ret' = Returned("has_key", key, "", Bool(b.value), 0)
                /\ written' = Written(b.cache, key, <<>>)
        /\ UNCHANGED <<clientVars, batchVars, raceVars, fileVars, max_size, compressor, now, gets>>

\* cache.get_or_set(key, value_func, ttl), where value_func() does f.
GetOrSet(key, f, ttl) ==
    LET g == FacadeGet(cache, stats, key, PyNone, now, FALSE)
        s == FacadeSet(g.cache, g.stats, key, f.value, ttl, now, FALSE)
    IN  /\ calls_left > 0
        /\ calls_left' = calls_left - 1
        /\ gets' = gets + 1
        /\ IF ~IsNone(g.value)
           THEN /\ cache' = g.cache
                /\ stats' = g.stats
                /\ ret' = Returned("get_or_set", key, "", g.value, 0)
                /\ written' = Written(g.cache, key, <<>>)
           ELSE IF f.raises
           THEN /\ cache' = g.cache
                /\ stats' = g.stats
                /\ ret' = [CacheError("get_or_set", key, "",
                                      "Failed to compute cache value", f.value, 1)
                           EXCEPT !.func_raised = TRUE, !.backend_raised = FALSE]
                /\ written' = Written(g.cache, key, <<>>)
           ELSE /\ cache' = s.cache
                /\ stats' = s.stats
                /\ ret' = IF s.raised
                          THEN CacheError("get_or_set", key, f.value,
                                          "Failed to set cache value", s.original, 1)
                          ELSE Returned("get_or_set", key, f.value, f.value, 1)
                /\ written' = Written(s.cache, key,
                                      IF s.raised THEN <<>> ELSE <<Write(f.value, ttl, now)>>)
        /\ UNCHANGED <<clientVars, batchVars, raceVars, fileVars, max_size, compressor, now>>

\* Time passes between two calls.
Tick ==
    /\ now < MaxTime
    /\ now' = now + 1
    /\ UNCHANGED <<clientVars, batchVars, raceVars, fileVars, max_size, compressor, cache, stats, ret, gets, calls_left, written>>

\* The compressor a CachingService makes when compression is enabled.
Enabled == [enabled |-> TRUE, threshold |-> 2]

\* The values of the callers that store None and one other value.
FewValues == {PyNone, "0"}

\* What value_func() does: it returns a value or raises an exception whose
\* str() is "boom".
Computes(values) ==
    [raises : {FALSE}, value : values] \cup {[raises |-> TRUE, value |-> "boom"]}

\* A caching service over an empty memory store, compression enabled or not.
InitRoundTrip ==
    IdleClient /\ IdleBatch /\ InitCallers(0) /\ IdleFiles /\ InitCache(MaxSizes, Compressors, MaxCalls)

\* One caller that sets and gets values of every kind.
NextRoundTrip ==
    \/ \E key \in CallerKeys, value \in Values \cup {Unpicklable}, ttl \in TTLs :
           Set(key, value, ttl, FALSE)
    \/ \E key \in CallerKeys : Get(key, Default, FALSE)
    \/ Tick

SpecRoundTrip == InitRoundTrip /\ [][NextRoundTrip]_vars

\* A caching service over an empty memory store.
InitCaching ==
    IdleClient /\ IdleBatch /\ InitCallers(0) /\ IdleFiles /\ InitCache(MaxSizes, {Enabled}, MaxCalls)

\* One caller of a CachingService over the memory store; the store raises
\* only for a value that pickle cannot serialize.
NextCache ==
    \/ \E key \in CallerKeys, value \in FewValues \cup {Unpicklable}, ttl \in TTLs :
           Set(key, value, ttl, FALSE)
    \/ \E key \in CallerKeys : Get(key, Default, FALSE)
    \/ \E key \in CallerKeys : Delete(key, FALSE)
    \/ Clear(FALSE)
    \/ \E key \in CallerKeys : HasKey(key, FALSE)
    \/ \E key \in CallerKeys, f \in Computes(FewValues \cup {Unpicklable}), ttl \in TTLs :
           GetOrSet(key, f, ttl)
    \/ Tick

SpecCache == InitCaching /\ [][NextCache]_vars

\* The value of the callers that store one value.
OneValue == {"0"}

\* An empty memory store.
InitStore ==
    IdleClient /\ IdleBatch /\ InitCallers(0) /\ IdleFiles /\ InitCache(MaxSizes, {Enabled}, MaxStoreCalls)

\* One caller that makes set, get, has_key, delete and clear calls with more
\* keys than the store holds.
NextStore ==
    \/ \E key \in Keys, value \in OneValue, ttl \in TTLs : Set(key, value, ttl, FALSE)
    \/ \E key \in Keys : Get(key, Default, FALSE)
    \/ \E key \in Keys : Delete(key, FALSE)
    \/ Clear(FALSE)
    \/ \E key \in Keys : HasKey(key, FALSE)
    \/ Tick

SpecStore == InitStore /\ [][NextStore]_vars

\* One caller of a CachingService whose backend calls may raise.
NextFaulty ==
    \/ \E key \in CallerKeys, value \in FewValues \cup {Unpicklable}, ttl \in TTLs,
          fault \in BOOLEAN :
           Set(key, value, ttl, fault)
    \/ \E key \in CallerKeys, fault \in BOOLEAN : Get(key, Default, fault)
    \/ \E key \in CallerKeys, fault \in BOOLEAN : Delete(key, fault)
    \/ \E fault \in BOOLEAN : Clear(fault)
    \/ \E key \in CallerKeys, fault \in BOOLEAN : HasKey(key, fault)
    \/ Tick

SpecFaulty == InitCaching /\ [][NextFaulty]_vars

----------------------------------------------------------------------------
(* test_memory_eviction: a loop sets max_size + max_size // 2 keys in turn  *)
(* (range(15) for max_size 10).  Between two iterations time may pass and   *)
(* the caller may read or set again the first key.                          *)

\* max_size of the stores that are filled beyond max_size: 10 is that of the
\* test's fixture.
EvictionSizes == {2, 10, 20}

\* Number of reads and repeated sets of the first key.
MaxRefreshes == 2

\* range(15), for max_size 10
LoopCount(m) == m + m \div 2

\* f"key{i}"; the keys of a store of two entries are a, b and c.
LoopKey(m, i) == IF m = 2 THEN <<"a", "b", "c">>[i + 1] ELSE "key" \o ToString(i)

\* The loop variable i: every key set by an earlier iteration is in the store
\* or was evicted.
LoopIndex == Len(cache) + stats.evictions

\* Calls of the loop and of the refreshes that are still to make.
Refreshes == calls_left - (LoopCount(max_size) - LoopIndex)

InitEviction ==
    /\ IdleClient
    /\ IdleBatch
    /\ InitCallers(0)
    /\ IdleFiles
    /\ InitBackend(EvictionSizes, {Enabled})
    /\ calls_left = LoopCount(max_size) + MaxRefreshes

\* memory_cache.set(f"key{i}", f"value{i}")
LoopSet ==
    /\ LoopIndex < LoopCount(max_size)
    /\ \E value \in OneValue : Set(LoopKey(max_size, LoopIndex), value, None, FALSE)

\* The caller reads the first key.
ReadFirst ==
    /\ Refreshes > 0
    /\ Get(LoopKey(max_size, 0), Default, FALSE)

\* The caller sets the first key again while it is stored.
SetFirstAgain ==
    /\ Refreshes > 0
    /\ Has(cache, LoopKey(max_size, 0))
    /\ \E value \in OneValue : Set(LoopKey(max_size, 0), value, None, FALSE)

NextEviction == LoopSet \/ ReadFirst \/ SetFirstAgain \/ Tick

SpecEviction == InitEviction /\ [][NextEviction]_vars

----------------------------------------------------------------------------
(* MemoryCacheBackend called by concurrent threads.  The class has no lock: *)
(* a thread switch can occur between any two statements of a method, and    *)
(* between the read and the write of "self._stats[...] += ...".  A step of  *)
(* a thread is one test, one access of the dict or one half of a counter    *)
(* update; _evict_items is taken as one step.                               *)

\* Number of calls each thread makes on the memory store.
MaxRaceCalls == 2

\* max_size of the store the threads share.
RaceSizes == {1}

\* The thread goes on with locals and position next.
Goes(t, next) == caller' = [caller EXCEPT ![t] = next]

\* The thread is about to run self._stats[counter] += delta, its last
\* statement.
ToCounter(l, counter, delta) ==
    [l EXCEPT !.pc = "counter_read", !.counter = counter, !.delta = delta]

\* The call returns.
ToIdle(l) == [NewCaller(l.left) EXCEPT !.key_error = l.key_error]

\* self._cache[key], or del self._cache[key], raises KeyError: the call ends.
ToKeyError(l) == [NewCaller(l.left) EXCEPT !.key_error = TRUE]

\* The variables no step of these threads changes.
RaceUnchanged ==
    UNCHANGED <<clientVars, batchVars, fileVars, max_size, compressor, now, ret, calls_left,
                written>>

\* set: if len(self._cache) >= self._max_size and key not in self._cache
RaceSetCheck(t, key) ==
    /\ caller[t].pc = "idle"
    /\ caller[t].left > 0
    /\ Goes(t, [caller[t] EXCEPT
                    !.pc = IF NeedsEviction(cache, key) THEN "set_evict" ELSE "set_store",
                    !.key = key,
                    !.left = @ - 1])
    /\ RaceUnchanged
    /\ UNCHANGED <<cache, stats, gets>>

\* set: self._evict_items()
RaceSetEvict(t) ==
    /\ caller[t].pc = "set_evict"
    /\ cache' = EvictItems(cache, stats).cache
    /\ stats' = EvictItems(cache, stats).stats
    /\ Goes(t, [caller[t] EXCEPT !.pc = "set_store"])
    /\ RaceUnchanged
    /\ UNCHANGED gets

\* set: self._cache[key] = (...)
RaceSetStore(t) ==
    LET entry == StoredEntry(caller[t].key, "0", None, now)
    IN  /\ caller[t].pc = "set_store"
        /\ cache' = Assign(cache, entry)
        /\ Goes(t, ToCounter(caller[t], "size", entry.size))
        /\ RaceUnchanged
        /\ UNCHANGED <<stats, gets>>

\* get: if key not in self._cache
RaceGetCheck(t, key) ==
    /\ caller[t].pc = "idle"
    /\ caller[t].left > 0
    /\ gets' = gets + 1
    /\ Goes(t, IF Has(cache, key)
               THEN [caller[t] EXCEPT !.pc = "get_read", !.key = key, !.left = @ - 1]
               ELSE ToCounter([caller[t] EXCEPT !.key = key, !.left = @ - 1], "misses", 1))
    /\ RaceUnchanged
    /\ UNCHANGED <<cache, stats>>

\* get: ... = self._cache[key] and the expiry test with its del
RaceGetRead(t) ==
    LET key == caller[t].key
    IN  /\ caller[t].pc = "get_read"
        /\ IF ~Has(cache, key)
           THEN /\ Goes(t, ToKeyError(caller[t]))
                /\ UNCHANGED cache
           ELSE IF IsExpired(Lookup(cache, key).expiry_time, now)
           THEN /\ cache' = Del(cache, key)
                /\ Goes(t, ToCounter(caller[t], "misses", 1))
           ELSE /\ Goes(t, [caller[t] EXCEPT !.pc = "get_touch",
                                             !.entry = <<Lookup(cache, key)>>])
                /\ UNCHANGED cache
        /\ RaceUnchanged
        /\ UNCHANGED <<stats, gets>>

\* get: self._cache[key] = (serialized, expiry_time, time.time(), is_compressed, _)
RaceGetTouch(t) ==
    /\ caller[t].pc = "get_touch"
    /\ cache' = Assign(cache, [caller[t].entry[1] EXCEPT !.last_access = now])
    /\ Goes(t, ToCounter(caller[t], "hits", 1))
    /\ RaceUnchanged
    /\ UNCHANGED <<stats, gets>>

\* delete: if key in self._cache
RaceDeleteCheck(t, key) ==
    /\ caller[t].pc = "idle"
    /\ caller[t].left > 0
    /\ Goes(t, IF Has(cache, key)
               THEN [caller[t] EXCEPT !.pc = "delete_read", !.key = key, !.left = @ - 1]
               ELSE ToIdle([caller[t] EXCEPT !.left = @ - 1]))
    /\ RaceUnchanged
    /\ UNCHANGED <<cache, stats, gets>>

\* delete: _, _, _, _, size = self._cache[key]
RaceDeleteRead(t) ==
    LET key == caller[t].key
    IN  /\ caller[t].pc = "delete_read"
        /\ Goes(t, IF Has(cache, key)
                   THEN [caller[t] EXCEPT !.pc = "delete_del",
                                          !.size = Lookup(cache, key).size]
                   ELSE ToKeyError(caller[t]))
        /\ RaceUnchanged
        /\ UNCHANGED <<cache, stats, gets>>

\* delete: del self._cache[key]
RaceDeleteDel(t) ==
    LET key == caller[t].key
    IN  /\ caller[t].pc = "delete_del"
        /\ IF Has(cache, key)
           THEN /\ cache' = Del(cache, key)
                /\ Goes(t, ToCounter(caller[t], "size", 0 - caller[t].size))
           ELSE /\ Goes(t, ToKeyError(caller[t]))
                /\ UNCHANGED cache
        /\ RaceUnchanged
        /\ UNCHANGED <<stats, gets>>

\* has_key: if key not in self._cache
RaceHasKeyCheck(t, key) ==
    /\ caller[t].pc = "idle"
    /\ caller[t].left > 0
    /\ Goes(t, IF Has(cache, key)
               THEN [caller[t] EXCEPT !.pc = "has_key_read", !.key = key, !.left = @ - 1]
               ELSE ToIdle([caller[t] EXCEPT !.left = @ - 1]))
    /\ RaceUnchanged
    /\ UNCHANGED <<cache, stats, gets>>

\* has_key: ... = self._cache[key] and the expiry test with its del
RaceHasKeyRead(t) ==
    LET key == caller[t].key
    IN  /\ caller[t].pc = "has_key_read"
        /\ IF ~Has(cache, key)
           THEN /\ Goes(t, ToKeyError(caller[t]))
                /\ UNCHANGED cache
           ELSE /\ cache' = IF IsExpired(Lookup(cache, key).expiry_time, now)
                            THEN Del(cache, key)
                            ELSE cache
                /\ Goes(t, ToIdle(caller[t]))
        /\ RaceUnchanged
        /\ UNCHANGED <<stats, gets>>

\* self._stats[counter] += delta: the read of the counter
CounterRead(t) ==
    /\ caller[t].pc = "counter_read"
    /\ Goes(t, [caller[t] EXCEPT !.pc = "counter_write",
                                 !.read = stats[caller[t].counter]])
    /\ RaceUnchanged
    /\ UNCHANGED <<cache, stats, gets>>

\* self._stats[counter] += delta: the write of the sum
CounterWrite(t) ==
    /\ caller[t].pc = "counter_write"
    /\ stats' = [stats EXCEPT ![caller[t].counter] = caller[t].read + caller[t].delta]
    /\ Goes(t, ToIdle(caller[t]))
    /\ RaceUnchanged
    /\ UNCHANGED <<cache, gets>>

\* An empty store shared by threads that make MaxRaceCalls calls each.
InitRace ==
    /\ IdleClient
    /\ IdleBatch
    /\ InitCache(RaceSizes, {Enabled}, 0)
    /\ InitCallers(MaxRaceCalls)
    /\ IdleFiles

NextRace ==
    \E t \in Threads :
        \/ \E key \in CallerKeys : RaceSetCheck(t, key)
        \/ RaceSetEvict(t)
        \/ RaceSetStore(t)
        \/ \E key \in CallerKeys : RaceGetCheck(t, key)
        \/ RaceGetRead(t)
        \/ RaceGetTouch(t)
        \/ \E key \in CallerKeys : RaceDeleteCheck(t, key)
        \/ RaceDeleteRead(t)
        \/ RaceDeleteDel(t)
        \/ \E key \in CallerKeys : RaceHasKeyCheck(t, key)
        \/ RaceHasKeyRead(t)
        \/ CounterRead(t)
        \/ CounterWrite(t)

SpecRace == InitRace /\ [][NextRace]_vars

----------------------------------------------------------------------------
(* CachingService.get_or_set called by concurrent threads.  self.get,       *)
(* value_func and self.set are the steps of a call; other threads run       *)
(* between them.                                                            *)

\* What the value_func of thread t returns.
ComputedBy(t) == IF t = 1 THEN "0" ELSE IF t = 2 THEN "text" ELSE "noise"

\* What get_or_set is recorded to have returned when it raises CacheError.
Raised == "CacheError"

\* get_or_set returns or raises: result is what the caller receives, value
\* what its value_func returned, if it was called.
GosEnds(l, result) == [NewCaller(l.left) EXCEPT !.key = l.key, !.value = l.value,
                                                !.result = result]

\* pickle.loads of the decompressed bytes stored for key.
StoredValue(c, key) ==
    pickle_loads(decompress(Lookup(c, key).serialized, Lookup(c, key).is_compressed))

\* value = self.get(key); if value is None
GosGet(t, key) ==
    LET g == FacadeGet(cache, stats, key, PyNone, now, FALSE)
        l == [NewCaller(caller[t].left - 1) EXCEPT !.key = key]
    IN  /\ caller[t].pc = "idle"
        /\ caller[t].left > 0
        /\ cache' = g.cache
        /\ stats' = g.stats
        /\ gets' = gets + 1
        /\ Goes(t, IF IsNone(g.value)
                   THEN [l EXCEPT !.pc = "gos_compute"]
                   ELSE GosEnds(l, g.value))
        /\ RaceUnchanged

\* value = value_func(), which returns or raises
GosCompute(t) ==
    /\ caller[t].pc = "gos_compute"
    /\ \E f \in Computes({ComputedBy(t)}) :
          Goes(t, IF f.raises
                  THEN GosEnds(caller[t], Raised)
                  ELSE [caller[t] EXCEPT !.pc = "gos_set", !.value = f.value])
    /\ RaceUnchanged
    /\ UNCHANGED <<cache, stats, gets>>

\* Variant: self.set leaves a key that is stored as it is.
GosSetKeepsFirst(t) ==
    LET s == FacadeSet(cache, stats, caller[t].key, caller[t].value, None, now, FALSE)
        stored == Has(cache, caller[t].key)
    IN  /\ caller[t].pc = "gos_set"
        /\ cache' = IF stored THEN cache ELSE s.cache
        /\ stats' = IF stored THEN stats ELSE s.stats
        /\ Goes(t, GosEnds(caller[t], IF s.raised THEN Raised ELSE caller[t].value))
        /\ RaceUnchanged
        /\ UNCHANGED gets

\* self.set(key, value, ttl); return value
GosSet(t) ==
    LET s == FacadeSet(cache, stats, caller[t].key, caller[t].value, None, now, FALSE)
    IN  /\ caller[t].pc = "gos_set"
        /\ cache' = s.cache
        /\ stats' = s.stats
        /\ Goes(t, GosEnds(caller[t], IF s.raised THEN Raised ELSE caller[t].value))
        /\ RaceUnchanged
        /\ UNCHANGED gets

\* A caching service over an empty memory store whose threads call
\* get_or_set MaxRaceCalls times each.
InitFlights ==
    /\ IdleClient
    /\ IdleBatch
    /\ InitCache(MaxSizes, Compressors, 0)
    /\ InitCallers(MaxRaceCalls)
    /\ IdleFiles

NextFlights ==
    \E t \in Threads :
        \/ \E key \in CallerKeys : GosGet(t, key)
        \/ GosCompute(t)
        \/ GosSet(t)

SpecFlights == InitFlights /\ [][NextFlights]_vars

----------------------------------------------------------------------------
(* FileCacheBackend.  The directory is the sequence of its *.cache files in *)
(* the order glob lists them, each a record of the key whose hash names the *)
(* file, its st_size, the later of its st_atime and st_mtime, and the       *)
(* expiry_time of its metadata.  The file system calls succeed.  A set is   *)
(* given the size of the file it writes: 4 bytes, the metadata and the      *)
(* serialized, possibly compressed, value.                                  *)

\* cache_files.sort(key=lambda x: x[1]): a stable sort by time_val.
RECURSIVE SortByTime(_)
SortByTime(cache_files) ==
    IF cache_files = <<>>
    THEN <<>>
    ELSE LET n == Len(cache_files)
             i == CHOOSE i \in 1..n :
                      /\ \A j \in 1..n : cache_files[i].time <= cache_files[j].time
                      /\ \A j \in 1..(i - 1) : cache_files[j].time # cache_files[i].time
         IN  <<cache_files[i]>>
                 \o SortByTime(SubSeq(cache_files, 1, i - 1) \o SubSeq(cache_files, i + 1, n))

\* target_size = self._max_size * 0.75;
\* space_to_free = max(0, self._stats["size"] - target_size), times 4.
SpaceToFree4(tracked, m) == IF 4 * tracked > 3 * m THEN 4 * tracked - 3 * m ELSE 0

\* for cache_file, _, size in cache_files: ... from file i on, with
\* freed_space = freed; s is the directory, the counters and the files
\* deleted so far.
RECURSIVE FileEvictLoop(_, _, _, _, _)
FileEvictLoop(cache_files, i, freed, space4, s) ==
    IF i > Len(cache_files) \/ 4 * freed >= space4
    THEN s
    ELSE FileEvictLoop(cache_files, i + 1, freed + cache_files[i].size, space4,
             [files |-> Del(s.files, cache_files[i].key),
              stats |-> [s.stats EXCEPT !.evictions = @ + 1],
              deleted |-> Append(s.deleted, cache_files[i])])

\* FileCacheBackend._update_size_stats
UpdateSizeStats(fs, st) == [st EXCEPT !.size = TotalSize(fs)]

\* FileCacheBackend._evict_items
FileEvictItems(fs, st, m) ==
    LET cache_files == SortByTime(fs)
        s == FileEvictLoop(cache_files, 1, 0, SpaceToFree4(st.size, m),
                           [files |-> fs, stats |-> st, deleted |-> <<>>])
    IN  [files |-> s.files,
         stats |-> UpdateSizeStats(s.files, s.stats),
         eviction |-> [call |-> "set", ran |-> TRUE, tracked |-> st.size,
                       found |-> cache_files, deleted |-> s.deleted, kept |-> s.files]]

\* Variant: eviction as soon as the tracked size reaches max_size.
FileNeedsEvictionAtMax(st, m) == st.size >= m

\* if self._stats["size"] > self._max_size
FileNeedsEviction(st, m) == st.size > m

\* The file set writes for key at time t.
WrittenFile(key, size, ttl, t) ==
    [key |-> key, size |-> size, time |-> t,
     expiry_time |-> IF ttl = None THEN None ELSE t + ttl]

\* FileCacheBackend.set
FileBackendSet(fs, st, m, key, size, ttl, t) ==
    LET e == IF FileNeedsEviction(st, m)
             THEN FileEvictItems(fs, st, m)
             ELSE [files |-> fs, stats |-> st, eviction |-> Called("set")]
    IN  [files |-> Assign(e.files, WrittenFile(key, size, ttl, t)),
         stats |-> [e.stats EXCEPT !.size = @ + size],
         eviction |-> e.eviction]

\* FileCacheBackend.delete
FileBackendDelete(fs, st, key) ==
    IF Has(fs, key)
    THEN [files |-> Del(fs, key), stats |-> [st EXCEPT !.size = @ - Lookup(fs, key).size]]
    ELSE [files |-> fs, stats |-> st]

\* FileCacheBackend.get: the directory and the counters it leaves.
FileBackendGet(fs, st, key, t) ==
    IF ~Has(fs, key)
    THEN [files |-> fs, stats |-> [st EXCEPT !.misses = @ + 1]]
    ELSE IF IsExpired(Lookup(fs, key).expiry_time, t)
    THEN LET d == FileBackendDelete(fs, st, key)
         IN  [files |-> d.files, stats |-> [d.stats EXCEPT !.misses = @ + 1]]
    ELSE [files |-> Assign(fs, [Lookup(fs, key) EXCEPT !.time = t]),
          stats |-> [st EXCEPT !.hits = @ + 1]]

\* FileCacheBackend.has_key: the directory and the counters it leaves.
FileBackendHasKey(fs, st, key, t) ==
    IF Has(fs, key) /\ IsExpired(Lookup(fs, key).expiry_time, t)
    THEN FileBackendDelete(fs, st, key)
    ELSE [files |-> fs, stats |-> st]

\* FileCacheBackend.clear
FileBackendClear(fs, st) == [files |-> <<>>, stats |-> [st EXCEPT !.size = 0]]

\* A call on the file store leaves directory fs and counters st; it is one of
\* the calls its caller makes.
FileCall(r) ==
    /\ calls_left > 0
    /\ calls_left' = calls_left - 1
    /\ files' = r.files
    /\ file_stats' = r.stats
    /\ UNCHANGED <<clientVars, batchVars, raceVars, max_size, compressor, cache, stats, now,
                   ret, gets, written, file_max_size>>

\* backend.set(key, value, ttl), where the file of value has size bytes
FileSet(key, size, ttl) ==
    LET r == FileBackendSet(files, file_stats, file_max_size, key, size, ttl, now)
    IN  /\ FileCall(r)
        /\ eviction' = r.eviction

\* backend.get(key)
FileGet(key) ==
    /\ FileCall(FileBackendGet(files, file_stats, key, now))
    /\ eviction' = Called("get")

\* backend.delete(key)
FileDelete(key) ==
    /\ FileCall(FileBackendDelete(files, file_stats, key))
    /\ eviction' = Called("delete")

\* backend.has_key(key)
FileHasKey(key) ==
    /\ FileCall(FileBackendHasKey(files, file_stats, key, now))
    /\ eviction' = Called("has_key")

\* backend.clear()
FileClear ==
    /\ FileCall(FileBackendClear(files, file_stats))
    /\ eviction' = Called("clear")

\* Number of calls made on the file store.
MaxFileCalls == 4

\* max_size of the file stores explored, in bytes.
FileMaxSizes == {4}

\* Sizes of the files written, in bytes.
FileSizes == {1, 3}

\* The directories a file store is constructed on: empty, or left by an
\* earlier store.
InitialDirs == {<<>>, <<WrittenFile("a", 2, None, 1)>>}

\* A file store and its single caller.
InitFileStore ==
    /\ IdleClient
    /\ IdleBatch
    /\ InitCallers(0)
    /\ InitCache({2}, {[enabled |-> FALSE, threshold |-> 0]}, MaxFileCalls)
    /\ InitFiles(FileMaxSizes, InitialDirs)

NextFiles ==
    \/ \E key \in Keys, size \in FileSizes, ttl \in TTLs : FileSet(key, size, ttl)
    \/ \E key \in Keys : FileGet(key)
    \/ \E key \in Keys : FileDelete(key)
    \/ \E key \in Keys : FileHasKey(key)
    \/ FileClear
    \/ Tick

SpecFiles == InitFileStore /\ [][NextFiles]_vars

\* test_file_eviction: the file_cache fixture's store of max_size_mb = 1 and
\* five sets of distinct keys, each of a string of 200 * 1024 random letters.
TestMaxSize == 1 * 1024 * 1024

\* Number of sets test_file_eviction makes.
TestSets == 5

\* len(generate_data(200))
LargeData == 200 * 1024

\* More bytes than a file has besides the pickled characters: the pickle
\* opcodes, the 4 bytes of the metadata length and the metadata.
FileOverhead == 1024

\* The sizes the file of one value of generate_data(200) can have: compressed
\* by zlib to half or to three quarters, or stored as it is.
LargeFileSizes == {LargeData \div 2, (3 * LargeData) \div 4, LargeData + FileOverhead}

\* file_cache.set(f"large_key{i}", generate_data(200)), for the next i
LargeSet(size) ==
    /\ calls_left > 0
    /\ FileSet("large_key" \o ToString(TestSets - calls_left), size, None)

InitFileTest ==
    /\ IdleClient
    /\ IdleBatch
    /\ InitCallers(0)
    /\ InitCache({2}, {[enabled |-> FALSE, threshold |-> 0]}, TestSets)
    /\ InitFiles({TestMaxSize}, {<<>>})

NextFileTest ==
    \/ \E size \in LargeFileSizes : LargeSet(size)
    \/ Tick

SpecFileTest == InitFileTest /\ [][NextFileTest]_vars

----------------------------------------------------------------------------
(* FileCacheBackend called by concurrent threads.  The class has no lock:   *)
(* a thread switch can occur between the write of the file and the update   *)
(* of the tracked size, and between the read and the write of               *)
(* self._stats["size"] += file_size.                                        *)

\* The variables no step of these threads changes.
WritersUnchanged ==
    UNCHANGED <<clientVars, batchVars, max_size, compressor, cache, stats, now, ret, gets,
                calls_left, written, file_max_size>>

\* The thread is about to run self._stats["size"] += delta.
ToSizeUpdate(l, key, delta) ==
    [l EXCEPT !.pc = "size_read", !.key = key, !.delta = delta, !.left = @ - 1]

\* set up to file_size = cache_path.stat().st_size: the eviction, if it is
\* due, and the write of the file
WriterSet(t, key, size) ==
    LET r == FileBackendSet(files, file_stats, file_max_size, key, size, None, now)
    IN  /\ caller[t].pc = "idle"
        /\ caller[t].left > 0
        /\ files' = r.files
        /\ file_stats' = [r.stats EXCEPT !.size = @ - size]
        /\ eviction' = r.eviction
        /\ Goes(t, ToSizeUpdate(caller[t], key, size))
        /\ WritersUnchanged

\* delete up to cache_path.unlink()
WriterDelete(t, key) ==
    /\ caller[t].pc = "idle"
    /\ caller[t].left > 0
    /\ files' = Del(files, key)
    /\ eviction' = Called("delete")
    /\ Goes(t, IF Has(files, key)
               THEN ToSizeUpdate(caller[t], key, 0 - Lookup(files, key).size)
               ELSE [caller[t] EXCEPT !.left = @ - 1])
    /\ WritersUnchanged
    /\ UNCHANGED file_stats

\* self._stats["size"] += file_size, or -= file_size: the read of the counter
WriterSizeRead(t) ==
    /\ caller[t].pc = "size_read"
    /\ Goes(t, [caller[t] EXCEPT !.pc = "size_write", !.read = file_stats.size])
    /\ WritersUnchanged
    /\ UNCHANGED <<files, file_stats, eviction>>

\* self._stats["size"] += file_size, or -= file_size: the write of the result
WriterSizeWrite(t) ==
    /\ caller[t].pc = "size_write"
    /\ file_stats' = [file_stats EXCEPT !.size = caller[t].read + caller[t].delta]
    /\ Goes(t, NewCaller(caller[t].left))
    /\ WritersUnchanged
    /\ UNCHANGED <<files, eviction>>

\* clear, called between the calls of the other threads
WriterClear(t) ==
    LET r == FileBackendClear(files, file_stats)
    IN  /\ \A u \in Threads : caller[u].pc = "idle"
        /\ caller[t].left > 0
        /\ files' = r.files
        /\ file_stats' = r.stats
        /\ eviction' = Called("clear")
        /\ Goes(t, [caller[t] EXCEPT !.left = @ - 1])
        /\ WritersUnchanged

\* A file store whose threads make MaxRaceCalls calls each.
InitWriters ==
    /\ IdleClient
    /\ IdleBatch
    /\ IdleCache
    /\ InitCallers(MaxRaceCalls)
    /\ InitFiles(FileMaxSizes, InitialDirs)

NextWriters ==
    \E t \in Threads :
        \/ \E key \in Keys, size \in FileSizes : WriterSet(t, key, size)
        \/ \E key \in Keys : WriterDelete(t, key)
        \/ WriterSizeRead(t)
        \/ WriterSizeWrite(t)
        \/ WriterClear(t)

SpecWriters == InitWriters /\ [][NextWriters]_vars

----------------------------------------------------------------------------
(* DatabaseClient.executemany, batch by batch.  A step is the code up to    *)
(* the first batch, one iteration of the loop, or the code after the loop;  *)
(* the except and finally clauses run in the step that raises.              *)

\* Largest len(parameters_list) of the short lists.
MaxParams == 5
\* Largest batch_size of the small batches.
MaxBatchSize == 3
\* self.config.get("services.database.batch_size", 100)
DefaultBatchSize == 100

\* (len(parameters_list), batch_size) of the calls explored: short lists with
\* small batches, and lists of one batch and of one item more with the
\* default batch size.
BatchInputs ==
    {<<n, b>> : n \in 0..MaxParams, b \in 1..MaxBatchSize}
        \cup {<<DefaultBatchSize, DefaultBatchSize>>,
              <<DefaultBatchSize + 1, DefaultBatchSize>>}

\* Variant: the slice parameters_list[i:i + batch_size + 1].
BatchOverlapping(list, i, size) ==
    SubSeq(list, i + 1, IF i + size + 1 < Len(list) THEN i + size + 1 ELSE Len(list))

\* parameters_list[i:i + self._batch_size]
Batch(list, i, size) ==
    SubSeq(list, i + 1, IF i + size < Len(list) THEN i + size ELSE Len(list))

\* finally: self.release(connection), outside a transaction and with a
\* connection.
Finally(call) ==
    IF call.connection /\ ~call.in_tx
    THEN [call EXCEPT !.releases = @ + 1]
    ELSE call

\* raise DatabaseError(...) from the except clause, then the finally clause.
RaiseDatabaseError(call) == Finally([call EXCEPT !.pc = "raised"])

\* executemany up to the loop: an empty list returns 0; inside a transaction
\* the call uses the transaction's connection; else self.connect() returns a
\* connection or raises.
EmStart ==
    /\ em.pc = "start"
    /\ IF parameters_list = <<>>
       THEN em' = [em EXCEPT !.pc = "returned", !.result = 0]
       ELSE IF em.in_tx
       THEN em' = [em EXCEPT !.pc = "loop"]
       ELSE \E ok \in BOOLEAN :
               em' = IF ok
                     THEN [em EXCEPT !.pc = "loop", !.connects = @ + 1,
                                     !.connection = TRUE]
                     ELSE RaiseDatabaseError([em EXCEPT !.connects = @ + 1])
    /\ UNCHANGED <<clientVars, cacheVars, raceVars, fileVars, parameters_list, batch_size>>

\* One iteration of "for i in range(0, len(parameters_list), batch_size)":
\* cursor.executemany(query, batch) raises, or sets cursor.rowcount.
EmBatch ==
    /\ em.pc = "loop"
    /\ em.i < Len(parameters_list)
    /\ LET batch == Batch(parameters_list, em.i, batch_size)
       IN  \E ok \in BOOLEAN, rowcount \in 0..Len(batch) :
               /\ ~ok => rowcount = 0
               /\ em' = IF ok
                        THEN [em EXCEPT !.sent = Append(@, batch),
                                        !.rowcounts = Append(@, rowcount),
                                        !.total_affected = @ + rowcount,
                                        !.i = @ + batch_size]
                        ELSE RaiseDatabaseError([em EXCEPT !.sent = Append(@, batch),
                                                           !.failed = TRUE])
    /\ UNCHANGED <<clientVars, cacheVars, raceVars, fileVars, parameters_list, batch_size>>

\* After the loop: connection.commit() outside a transaction, which may
\* raise, and "return total_affected".
EmFinish ==
    /\ em.pc = "loop"
    /\ em.i >= Len(parameters_list)
    /\ IF em.in_tx
       THEN em' = [em EXCEPT !.pc = "returned", !.result = em.total_affected]
       ELSE \E ok \in BOOLEAN :
               em' = IF ok
                     THEN Finally([em EXCEPT !.pc = "returned", !.commits = @ + 1,
                                             !.result = em.total_affected])
                     ELSE RaiseDatabaseError([em EXCEPT !.commits = @ + 1])
    /\ UNCHANGED <<clientVars, cacheVars, raceVars, fileVars, parameters_list, batch_size>>

InitExecutemany ==
    IdleClient /\ IdleCache /\ InitCallers(0) /\ IdleFiles /\ InitBatch(BatchInputs)

NextExecutemany == EmStart \/ EmBatch \/ EmFinish

SpecExecutemany == InitExecutemany /\ [][NextExecutemany]_vars

----------------------------------------------------------------------------
(* Properties of the pool *)

\* C1: in every reachable state of the pool, under any interleaving of
\* get_connection, return_connection, validation failures, creation failures
\* and close_all, the active counter is at most max_connections.
ActiveWithinMax == active_connections <= max_connections

\* The counter is at max_connections after more connections were created
\* than max_connections: some were discarded or closed and replaced.
ActiveWithinMaxWitness ==
    /\ active_connections = max_connections
    /\ next_conn > max_connections + 1

\* C2: the connections acquired and not yet released are pairwise distinct
\* over the callers, and no connection is at once held by a caller (or being
\* validated for one) and present in the idle set; the idle set holds no
\* connection twice.
ExclusiveOwnership ==
    /\ \A t, u \in Threads : t # u => held[t] \cap held[u] = {}
    /\ \A t \in Threads : held[t] \cap PoolConns = {}
    /\ \A t \in Threads :
          cur[t] # None =>
              /\ cur[t] \notin PoolConns
              /\ \A u \in Threads : u # t => cur[t] \notin held[u] /\ cur[t] # cur[u]
    /\ \A i, j \in 1..Len(pool) : i # j => pool[i].conn # pool[j].conn

\* Two callers hold a connection each at the same time.
ExclusiveOwnershipWitness ==
    \E t, u \in Threads : t # u /\ held[t] # {} /\ held[u] # {}

\* At most one connection is out of the idle set, with one caller.
OneOut ==
    \A t \in Threads :
        /\ Cardinality(held[t] \cup ({cur[t]} \ {None})) <= 1
        /\ \A u \in Threads :
              u # t /\ (held[t] # {} \/ cur[t] # None) => held[u] = {} /\ cur[u] = None

\* C7 as stated: with max_connections = 1, B's get_connection does not return
\* while A holds the connection, and if A calls return_connection before B's
\* timeout elapses, B's get_connection returns a connection: it does not end
\* with ConnectionError.
ReleaseBeforeTimeoutServesWaiter ==
    /\ OneOut
    /\ \A t \in Threads : pc[t] = "raise" => ~offered[t]

\* C7, amended: with max_connections = 1 and callers that call only
\* get_connection and return_connection, B's get_connection does not return
\* while A holds the connection; B's get_connection raises ConnectionError
\* only after its timeout has elapsed; and when B's pool.get finds a
\* connection in the idle set that has not been idle for longer than
\* validation_interval, B's get_connection returns that connection.
ExhaustionBlocksUntilRelease ==
    /\ []OneOut
    /\ [](\A t \in Threads : pc[t] = "raise" => expired[t])
    /\ [][\A t \in Threads :
            (pc[t] = "gc_get" /\ pc'[t] # "gc_get" /\ pool # <<>> /\ ~Head(pool).stale)
                => /\ pc'[t] = "idle"
                   /\ held'[t] = held[t] \cup {Head(pool).conn}
                   /\ pool' = Tail(pool)]_vars

\* B's get_connection returned the one connection of the pool, which A
\* returned while B was waiting within its timeout.
ExhaustionBlocksUntilReleaseWitness ==
    \E t \in Threads :
        /\ offered[t]
        /\ pc[t] = "idle"
        /\ held[t] = {1}
        /\ next_conn = 2
        /\ \A u \in Threads : u # t => held[u] = {}

\* C8: every call to get_connection terminates, returning a connection or
\* raising ConnectionError, and it raises only once its timeout has elapsed;
\* a pool whose factory failed at construction exists and fails on acquire.
GetConnectionTerminates ==
    /\ \A t \in Threads : (pc[t] \in GetConnectionPcs) ~> (pc[t] \notin GetConnectionPcs)
    /\ [](\A t \in Threads : pc[t] = "raise" => expired[t])

\* A pool constructed with a factory that always fails (min_connections > 0,
\* no connection ever made) raises ConnectionError from get_connection.
GetConnectionTerminatesWitness ==
    \E t \in Threads :
        /\ pc[t] = "raise"
        /\ expired[t]
        /\ min_connections > 0
        /\ next_conn = 1
        /\ active_connections = 0

\* C10: in the pool pre-warmed with min_connections = 2 (max 5), when a
\* caller acquires a connection, releases it and acquires again with no other
\* caller active, the second acquire returns the connection just released.
ReacquireReturnsReleased ==
    [][\A t \in Threads : \A c \in Conns :
          (/\ last_released = <<t, c>>
           /\ min_connections = 2
           /\ active_connections = 2
           /\ next_conn = 3
           /\ \A u \in Threads : u # t => pc[u] = "idle" /\ held[u] = {}
           /\ held[t] \subseteq held'[t]
           /\ held'[t] # held[t])
              => held'[t] = held[t] \cup {c}]_vars

----------------------------------------------------------------------------
(* Properties of transactions and statement calls *)

\* C3: if an inner transaction() scope exits with an exception, then when the
\* nesting depth returns to 0 the connection is rolled back and not
\* committed, and none of the writes made since the outermost scope began
\* survive.
InnerFailureRollsBackAll ==
    \A t \in Threads :
        LET log == txlog[t]
            calls == {log.finals[i] : i \in 1..Len(log.finals)}
        IN  (log.state = "closed" /\ log.inner_failed) =>
                /\ "rollback" \in calls
                /\ "commit" \notin calls
                /\ log.writes \cap committed = {}

\* C4: when an inner scope raises and the enclosing body catches the
\* exception and continues, after the outermost scope exits the writes of the
\* outer scope are committed and the writes of the failed inner scope are not.
CaughtInnerFailureKeepsOuterOnly ==
    \A t \in Threads :
        LET log == txlog[t]
        IN  (log.state = "closed" /\ log.inner_failed /\ log.exit = "ok") =>
                /\ (log.writes \ log.failed) \subseteq committed
                /\ log.failed \cap committed = {}

DeferredCommit ==
    \A t \in Threads :
        LET log == txlog[t]
        IN  /\ transaction_level[t] > 0 =>
                  /\ log.finals = <<>>
                  /\ log.writes \cap committed = {}
                  /\ connection[t] \in Conns
                  /\ log.writes \subseteq pending[connection[t]]
                  /\ log.writes \subseteq QueryResult(connection[t])
            /\ (log.state = "closed" /\ log.exit = "ok") =>
                  /\ log.finals = <<"commit">>
                  /\ log.writes \subseteq committed

\* Nested scopes that all exited normally, with two rows written, all
\* committed.
DeferredCommitWitness ==
    \E t \in Threads :
        /\ txlog[t].state = "closed"
        /\ txlog[t].exit = "ok"
        /\ txlog[t].nested
        /\ ~txlog[t].inner_failed
        /\ Cardinality(txlog[t].writes) >= 2
        /\ txlog[t].writes \subseteq committed

\* C9: an execute, query or executemany call made outside any transaction
\* puts the connection it acquired back in the idle set when it ends, by
\* success or by DatabaseError, and the caller holds what it held before the
\* call (nothing); on success execute and executemany have committed the
\* rows they wrote, with nothing left pending on the connection, and query
\* has committed nothing.
StatementReleasesConnection ==
    /\ [](\A t \in ClientThreads :
            (pc[t] \in {"idle", "raise", "exited"} /\ transaction_level[t] = 0)
                => held[t] = {})
    /\ [][\A t \in ClientThreads :
            (pc[t] = "run" /\ pc'[t] # "run") =>
                /\ pool' = Append(pool, Entry(cur[t]))
                /\ held'[t] = held[t] \ {cur[t]}
                /\ (pc'[t] = "idle" /\ op[t] # "query") =>
                      /\ pending'[cur[t]] = {}
                      /\ next_write..(next_write' - 1) \subseteq committed'
                /\ op[t] = "query" =>
                      /\ committed' = committed
                      /\ pending' = pending]_vars

\* An executemany call outside a transaction has ended with DatabaseError
\* after a batch was sent: the caller holds nothing and the connection, with
\* the batch pending, is in the idle set.
StatementReleasesConnectionWitness ==
    \E t \in ClientThreads :
        /\ pc[t] = "raise"
        /\ op[t] = "executemany"
        /\ held[t] = {}
        /\ \E c \in PoolConns : pending[c] # {}

----------------------------------------------------------------------------
(* Properties of the caching service *)

\* The entry of the key was set with a ttl that has not elapsed at time t, or
\* with none.
Unelapsed(key, t) ==
    /\ written[key].stored
    /\ written[key].ttl # None => t - written[key].at <= written[key].ttl

\* C11: a get(key, default) that directly follows a set(key, value, ttl)
\* which did not raise, before the ttl has elapsed, returns the value that
\* was set, whatever the value (None and falsy values included), with
\* compression enabled or disabled and payloads below and at or above the
\* compression threshold.
SetThenGetReturnsValue ==
    [][(/\ ret.call = "set"
        /\ ~ret.raised
        /\ ret'.call = "get"
        /\ ret'.key = ret.key
        /\ Unelapsed(ret.key, now))
       => ret'.value = written[ret.key].value]_vars

\* The step is a call of one of the operations in calls with the key.
IsCall(calls, key) == calls_left' = calls_left - 1 /\ ret'.call \in calls /\ ret'.key = key

\* C12: for a stored key that was set with a ttl, a get or has_key made more
\* than ttl seconds after the set returns the caller's default, respectively
\* False, and removes the entry; one made no more than ttl seconds after the
\* set returns the value that was set, respectively True, and keeps the entry.
ExpiredEntryIsAbsent ==
    [][\A key \in Keys :
        (IsCall({"get", "has_key"}, key) /\ written[key].stored /\ written[key].ttl # None)
        => IF now - written[key].at > written[key].ttl
           THEN /\ ret'.value = IF ret'.call = "get" THEN Default ELSE Bool(FALSE)
                /\ ~Has(cache', key)
           ELSE /\ ret'.value = IF ret'.call = "get" THEN written[key].value ELSE Bool(TRUE)
                /\ Has(cache', key)]_vars

\* C13: with one caller making set, get, has_key, delete and clear calls on a
\* memory store of max_size N >= 1, the store never holds more than N entries,
\* and a set of a key that is not in the store, made while the store holds N
\* entries, raises the evictions counter by at least one.
WithinMaxSize ==
    /\ [](Len(cache) <= max_size)
    /\ [][\A key \in Keys :
            (IsCall({"set"}, key) /\ ~Has(cache, key) /\ Len(cache) = max_size)
            => /\ stats'.evictions >= stats.evictions + 1
               /\ Len(cache') <= max_size]_vars

\* A set of a new key was made on a full store of two entries, and the store
\* is full again.
WithinMaxSizeWitness ==
    /\ max_size = 2
    /\ ret.call = "set"
    /\ ~ret.raised
    /\ stats.evictions = 1
    /\ Len(cache) = max_size

\* The keys of the entries of a store.
StoredKeys(c) == {c[i].key : i \in 1..Len(c)}

\* The entries that the step removes from the store.
Removed == {i \in 1..Len(cache) : cache[i].key \notin StoredKeys(cache')}

\* No read and no repeated set of the first key was made, and the loop of
\* sets has ended.
LoopOnlyEnded ==
    /\ Refreshes = MaxRefreshes
    /\ LoopIndex = LoopCount(max_size)

\* C14: an eviction from a store of n entries removes exactly
\* max(1, floor(n / 10)) entries, none of which was accessed later than an
\* entry that stays; a set, and a get of a stored key that has no expiry,
\* leave the key's last access at the time of the call; with max_size 2 the
\* sets of a, b and c evict exactly a, and with max_size 10 the sets of key0
\* to key14 evict exactly key0 to key4 and keep key10 to key14.
EvictsLeastRecentlyUsed ==
    /\ [][/\ stats'.evictions # stats.evictions
             => LET n == Len(cache)
                    num == IF n \div 10 > 1 THEN n \div 10 ELSE 1
                IN  /\ Cardinality(Removed) = num
                    /\ stats'.evictions = stats.evictions + num
                    /\ \A i \in Removed, j \in (1..n) \ Removed :
                           cache[i].last_access <= cache[j].last_access
          /\ (calls_left' = calls_left - 1 /\ ret'.call = "set" /\ ~ret'.raised)
             => Lookup(cache', ret'.key).last_access = now
          /\ (/\ calls_left' = calls_left - 1
              /\ ret'.call = "get"
              /\ Has(cache, ret'.key)
              /\ Lookup(cache, ret'.key).expiry_time = None)
             => Lookup(cache', ret'.key).last_access = now]_vars
    /\ []((max_size = 2 /\ LoopOnlyEnded)
          => StoredKeys(cache) = {"b", "c"} /\ stats.evictions = 1)
    /\ []((max_size = 10 /\ LoopOnlyEnded)
          => /\ StoredKeys(cache) = {LoopKey(10, i) : i \in 5..14}
             /\ stats.evictions = 5)

\* A full store of 20 entries evicted two entries at once, and the first key,
\* read in time, is not one of them.
EvictsLeastRecentlyUsedWitness ==
    /\ max_size = 20
    /\ stats.evictions = 2
    /\ Len(cache) = 19
    /\ Has(cache, LoopKey(20, 0))
    /\ ret.call = "set"
    /\ gets > 0

\* The key is not stored, or its entry was set with a ttl that has elapsed.
Missing(key) == ~written[key].stored \/ ~Unelapsed(key, now)

\* The step is a get_or_set of the key, missing from the cache, whose
\* value_func raises.
FailedCompute(key) ==
    /\ IsCall({"get_or_set"}, key)
    /\ Missing(key)
    /\ ret'.func_raised

\* The call raises CacheError with the key and the message of value_func's
\* exception, and the key is not stored.
ReportsFailure(key) ==
    /\ ret'.raised
    /\ ret'.cache_key = key
    /\ ret'.message = <<"Failed to compute cache value", "boom">>
    /\ ~Has(cache', key)

\* value_func is invoked again by a get_or_set of the same key that follows a
\* get_or_set whose value_func raised.
ComputesAgain ==
    (/\ ret.call = "get_or_set"
     /\ ret.func_raised
     /\ IsCall({"get_or_set"}, ret.key))
    => ret'.computed = 1

\* C15 as stated: when value_func raises in a get_or_set of a missing key,
\* the call raises CacheError with the key and the original message, the key
\* is not stored and the stored entries are those stored before the call; the
\* next get_or_set of the key invokes value_func again.
FailedComputeLeavesStoreUnchanged ==
    [][/\ \A key \in Keys :
              FailedCompute(key) => ReportsFailure(key) /\ cache' = cache
       /\ ComputesAgain]_vars

\* C15, amended: as above, but the stored entries are those stored before the
\* call without the expired entry of the key, if there was one.
FailedComputeStoresNothing ==
    [][/\ \A key \in Keys :
              FailedCompute(key) => ReportsFailure(key) /\ cache' = Del(cache, key)
       /\ ComputesAgain]_vars

\* value_func raised in a get_or_set that found and removed the expired entry
\* of the key, and raised again in the next get_or_set of the key.
FailedComputeStoresNothingWitness ==
    /\ ret.call = "get_or_set"
    /\ ret.func_raised
    /\ ret.computed = 1
    /\ stats.misses = 2
    /\ calls_left = 0
    /\ now = MaxTime
    /\ Len(cache) = 0
    /\ stats.size = 1

\* C16: a get_or_set of a key that follows a get_or_set which computed and
\* stored the key's value returns that value without invoking value_func as
\* long as the ttl has not elapsed, whatever the value; once it has elapsed,
\* the get_or_set invokes value_func once and, unless it raises, stores and
\* returns the new value.
StoredComputeIsReused ==
    [][(/\ ret.call = "get_or_set"
        /\ ret.computed = 1
        /\ ~ret.raised
        /\ IsCall({"get_or_set"}, ret.key))
       => IF Unelapsed(ret.key, now)
          THEN /\ ret'.computed = 0
               /\ ~ret'.raised
               /\ ret'.value = ret.value
          ELSE /\ ret'.computed = 1
               /\ ~ret'.raised
                  => /\ Has(cache', ret.key)
                     /\ written'[ret.key] = Write(ret'.value, written'[ret.key].ttl, now)]_vars

\* C17: get and has_key never raise: when the backend call raises, get
\* returns the caller's default and has_key returns False; set, delete and
\* clear raise CacheError whenever the backend call raises, and only then.
FacadePropagation ==
    /\ ret.call \in {"get", "has_key"}
       => /\ ~ret.raised
          /\ ret.backend_raised
             => ret.value = IF ret.call = "get" THEN Default ELSE Bool(FALSE)
    /\ ret.call \in {"set", "delete", "clear"}
       => /\ ret.raised = ret.backend_raised
          /\ ret.raised => ret.message[2] \in {"fault", "PicklingError"}

\* The backend raised in a get of a stored key, which returned the default
\* and counted no hit.
FacadePropagationWitness ==
    /\ ret.call = "get"
    /\ ret.backend_raised
    /\ ret.value = Default
    /\ Has(cache, ret.key)
    /\ stats.hits = 0
    /\ calls_left = 0

\* C20: every get of the memory store adds one to hits when the key is stored
\* and its ttl has not elapsed, and one to misses otherwise, and leaves the
\* other of the two alone, so that hits + misses is the number of get calls;
\* set, delete, clear and has_key change neither; hits, misses and evictions
\* never decrease.
HitsAndMissesCountGets ==
    /\ [](stats.hits + stats.misses = gets)
    /\ [][/\ \A key \in Keys :
                 IsCall({"get"}, key)
                 => IF written[key].stored /\ Unelapsed(key, now)
                    THEN /\ stats'.hits = stats.hits + 1
                         /\ stats'.misses = stats.misses
                    ELSE /\ stats'.hits = stats.hits
                         /\ stats'.misses = stats.misses + 1
          /\ (/\ calls_left' = calls_left - 1
              /\ ret'.call \in {"set", "delete", "clear", "has_key"})
             => /\ stats'.hits = stats.hits
                /\ stats'.misses = stats.misses
          /\ stats'.hits >= stats.hits
          /\ stats'.misses >= stats.misses
          /\ stats'.evictions >= stats.evictions]_vars

\* A get hit the entry of a key, and a later get found the entry expired.
HitsAndMissesCountGetsWitness ==
    /\ ret.call = "get"
    /\ stats.hits = 1
    /\ stats.misses = 1
    /\ gets = 2
    /\ Len(cache) = 0
    /\ stats.size > 0

----------------------------------------------------------------------------
(* Properties of executemany *)

\* The batches of a sequence of batches, one after the other.
RECURSIVE Flatten(_)
Flatten(batches) ==
    IF batches = <<>> THEN <<>> ELSE Head(batches) \o Flatten(Tail(batches))

\* C19: the batches executemany passes to the cursor have at most batch_size
\* parameter sets each and are, one after the other, the beginning of
\* parameters_list; a call that returns has passed the whole list, each
\* parameter set in one batch, and returns the sum of the row counts of its
\* batches; a call with an empty list returns 0 and does not call connect();
\* when a batch fails, the call raises with that batch as the last one passed
\* and has not called commit().
BatchesInOrder ==
    LET passed == Flatten(em.sent)
    IN  /\ \A k \in 1..Len(em.sent) : Len(em.sent[k]) \in 1..batch_size
        /\ passed = SubSeq(parameters_list, 1, Len(passed))
        /\ em.pc = "returned"
           => /\ passed = parameters_list
              /\ Len(em.rowcounts) = Len(em.sent)
              /\ em.result = SumSeq(em.rowcounts)
        /\ (em.pc = "returned" /\ parameters_list = <<>>)
           => /\ em.result = 0
              /\ em.connects = 0
        /\ em.failed
           => /\ em.pc = "raised"
              /\ em.commits = 0
              /\ Len(em.rowcounts) = Len(em.sent) - 1

\* A call with the default batch size has passed a list of 101 parameter sets
\* as a batch of 100 and a batch of 1, committed and returned the sum of the
\* two row counts.
BatchesInOrderWitness ==
    /\ batch_size = DefaultBatchSize
    /\ em.pc = "returned"
    /\ Len(em.sent) = 2
    /\ Len(em.sent[1]) = DefaultBatchSize
    /\ Len(em.sent[2]) = 1
    /\ em.result = DefaultBatchSize + 1
    /\ em.commits = 1
    /\ em.releases = 1

----------------------------------------------------------------------------
(* Properties of the memory store under concurrent callers.                 *)

\* Every thread is between two calls.
AllIdle == \A t \in Threads : caller[t].pc = "idle"

\* No call ended with the KeyError of an entry another thread removed.
NoKeyError == \A t \in Threads : ~caller[t].key_error

\* No hit or miss was lost: once all calls have returned, every get was
\* counted exactly once.
NoLostCount == AllIdle => stats.hits + stats.misses = gets

\* C18: operations of concurrent threads on one memory store are mutually
\* exclusive: under any interleaving the entry count stays at most max_size,
\* no update of the hit and miss counters is lost, and no operation fails
\* because another thread removed an entry between its presence check and
\* its access.
ConcurrentCallsAreSerialised ==
    /\ Len(cache) <= max_size
    /\ NoLostCount
    /\ NoKeyError

----------------------------------------------------------------------------
(* Properties of validation and close_all *)

\* Connection c is in the idle set, or in the hands of a caller or of a
\* running get_connection.
InUse(c) ==
    \/ c \in PoolConns
    \/ \E t \in Threads : c \in held[t] \/ cur[t] = c

\* Connection c was created and the pool and its callers have let go of it:
\* it was discarded after a failed probe, or taken off the queue by close_all.
Gone(c) == c < next_conn /\ ~InUse(c)

\* The probe of thread t's get_connection fails in this step.
ProbeFails(t) == pc[t] = "gc_validate" /\ pc'[t] = "gc_dec"

\* The probe of thread t's get_connection passes in this step.
ProbePasses(t) == pc[t] = "gc_validate" /\ pc'[t] # "gc_validate" /\ pc'[t] # "gc_dec"

\* Thread t's get_connection takes an idle entry that has not been idle for
\* longer than validation_interval.
TakesFresh(t) ==
    pc[t] = "gc_get" /\ pc'[t] # "gc_get" /\ pool # <<>> /\ ~Head(pool).stale

\* C22: an idle connection taken by get_connection after more than
\* validation_interval that fails the probe is discarded (no get_connection
\* returns it and it never re-enters the idle set), the active counter is then
\* decremented by exactly 1 and a replacement is attempted; a connection idle
\* for no longer, or one that passes the probe, is returned at once; a
\* connection held by a caller is never validated or discarded.
FailedProbeDiscards ==
    /\ [](\A t \in Threads :
            pc[t] = "gc_validate" => \A u \in Threads : cur[t] \notin held[u])
    /\ [][/\ \A t \in Threads :
               /\ ProbeFails(t) => \A c \in Conns : c = cur[t] => Gone(c)'
               /\ ProbePasses(t) => cur[t] \in held'[t]
               /\ TakesFresh(t) => Head(pool).conn \in held'[t]
               /\ pc[t] = "gc_dec" /\ pc'[t] # "gc_dec" =>
                      /\ active_connections' = active_connections - 1
                      /\ pc'[t] = "gc_add"
           /\ \A c \in Conns :
               /\ Gone(c) => Gone(c)'
               /\ ~Gone(c) /\ Gone(c)' => \A u \in Threads : c \notin held[u]
       ]_vars

\* The probe of the only connection made so far has failed: the connection is
\* gone and the decrement is next.
FailedProbeDiscardsWitness ==
    \E t \in Threads :
        /\ pc[t] = "gc_dec"
        /\ next_conn = 2
        /\ Gone(1)
        /\ active_connections = 1

\* close_all, called by thread t, returns in this step.
CloseAllReturns(t) == pc[t] = "ca_reset" /\ pc'[t] = "idle"

\* When close_all returns the idle set is empty.
IdleEmptyAtReturn == [][\A t \in Threads : CloseAllReturns(t) => pool' = <<>>]_vars

\* When close_all returns the active counter is 0.
CounterZeroAtReturn ==
    [][\A t \in Threads : CloseAllReturns(t) => active_connections' = 0]_vars

\* Every connection close_all takes off the queue is closed and let go of,
\* and no get_connection returns it later.
ClosedStayClosed ==
    [][\A c \in Conns :
        /\ (\E t \in Threads : pc[t] = "ca_loop" /\ pc' = pc
                               /\ pool # <<>> /\ Head(pool).conn = c /\ pool' = Tail(pool))
              => Gone(c)'
        /\ Gone(c) => Gone(c)'
      ]_vars

\* C23: when close_all returns, the idle set is empty, every connection that
\* was idle has been closed and the active counter is 0, also when other
\* callers call get_connection and return_connection concurrently; no
\* connection closed by close_all is returned by a later get_connection.
CloseAllLeavesPoolEmpty ==
    /\ IdleEmptyAtReturn
    /\ CounterZeroAtReturn
    /\ ClosedStayClosed

----------------------------------------------------------------------------
(* Properties of the active counter across close_all *)

\* The connections of the pool that are open: idle, or in the hands of a
\* caller or of a running get_connection.
Live == {c \in Conns : InUse(c)}

\* No call of the pool is running.
PoolQuiet == lock = None /\ \A t \in Threads : pc[t] = "idle"

\* C26: under any interleaving of get_connection, return_connection and
\* close_all, including close_all called while connections are held and
\* released afterwards, the number of live connections (idle plus held) never
\* exceeds max_connections and, between the calls of the pool, equals the
\* active counter.
LiveMatchesCounter ==
    /\ Cardinality(Live) <= max_connections
    /\ PoolQuiet => Cardinality(Live) = active_connections

\* C27: the active counter is never negative, in particular when a connection
\* held across a close_all is released, taken from the idle set later and
\* fails validation.
CounterNeverNegative == active_connections >= 0

----------------------------------------------------------------------------
(* Properties of the memory store's size statistic *)

\* The sum of the original serialized sizes of the entries stored.
StoredBytes == SumSeq([i \in 1..Len(cache) |-> cache[i].size])

\* C29: after any sequence of set (also of a key that exists), get, has_key,
\* delete and clear on the memory store, with entries expiring and being
\* evicted, the size statistic equals the sum of the original serialized
\* sizes of the entries stored.
SizeStatisticIsExact == stats.size = StoredBytes

----------------------------------------------------------------------------
(* Properties of concurrent get_or_set *)

\* The self.set of thread t's get_or_set runs in this step.
SetsComputed(t) == caller[t].pc = "gos_set" /\ caller'[t].pc = "idle"

\* C25: get_or_set is not single-flight.  Every call that misses invokes its
\* own value_func, whatever the other callers do; it stores what it computed
\* over what is stored for the key and returns it, so that after concurrent
\* misses of one key each caller has its own value and the store holds the
\* value of the later set.
NoSingleFlight ==
    [][\A t \in Threads :
        /\ caller[t].pc = "idle" /\ caller'[t].pc = "gos_compute" =>
               ~Has(cache', caller'[t].key)
        /\ caller[t].pc = "gos_compute" /\ caller'[t].pc = "gos_set" =>
               caller'[t].value = ComputedBy(t)
        /\ SetsComputed(t) =>
               /\ caller'[t].result = ComputedBy(t)
               /\ Has(cache', caller[t].key)
               /\ StoredValue(cache', caller[t].key) = ComputedBy(t)
      ]_vars

\* Two callers called get_or_set once each for key "a", both computed, each
\* got its own value and the store holds the value of thread 1, whose set was
\* the later one.
NoSingleFlightWitness ==
    /\ gets = 2
    /\ \A t \in {1, 2} :
        /\ caller[t].pc = "idle"
        /\ caller[t].key = "a"
        /\ caller[t].value = ComputedBy(t)
        /\ caller[t].result = ComputedBy(t)
    /\ Has(cache, "a")
    /\ StoredValue(cache, "a") = ComputedBy(1)

----------------------------------------------------------------------------
(* Properties of the connections a statement call returns to the pool *)

\* C28: a connection in the idle set carries no uncommitted writes: an
\* execute or executemany call made outside a transaction that fails after
\* statements or batches were sent leaves none of them pending on the
\* connection it returns to the pool, so none of them is made durable by the
\* commit of a later caller that gets the connection.
IdleCarriesNoWrites == \A c \in PoolConns : pending[c] = {}

----------------------------------------------------------------------------
(* Properties of the file store *)

\* The first n files of the sequence fs.
FirstFiles(fs, n) == SubSeq(fs, 1, n)

\* The bytes _evict_items had to free, times 4: tracked size less 75% of
\* max_size.
Needed4 == 4 * eviction.tracked - 3 * file_max_size

\* The latest step was a set on the file store.
FileSetStep == calls_left' = calls_left - 1 /\ eviction'.call = "set"

FiveLargeSetsEvict == calls_left = 0 => file_stats.evictions > 0

\* The tracked size equals the total size of the cache files.
TrackedIsTotal == file_stats.size = TotalSize(files)

\* C30: the file store's tracked size equals the total size of the cache
\* files at construction and after every set (also one that overwrites a
\* key's file), delete and clear of a single caller; with concurrent writers
\* no increment or decrement of the tracked size is lost, so the two are
\* equal whenever no call is running.
TrackedSizeIsExact == AllIdle => TrackedIsTotal

====
